---------------------------- MODULE Spec2Model ----------------------------
(***************************************************************************)
(* A model of the collectd configuration deserializer (src/de/mod.rs).     *)
(*                                                                         *)
(* The state is the engine (Deserializer: input, depth, root), the chain   *)
(* of iterators that serde's visitors are currently driving                *)
(* (FieldSeparated / SeqSeparated, each with the partial value its visitor *)
(* has built), the error that is travelling up the call chain, and the     *)
(* outcomes the caller of from_collectd has received so far.               *)
(*                                                                         *)
(* Strings are sequences of Unicode code points, so that the byte length   *)
(* str::len() reports can be computed from the UTF-8 encoding.             *)
(* Numbers (f64) are fixed-point integers counting 1/NumScale units.       *)
(***************************************************************************)
EXTENDS Integers, Sequences, FiniteSets, TLC

VARIABLES
    input,      \* Deserializer.input: the top-level slice of ConfigItem
    shape,      \* the target type T of from_collectd::<T>
    castMode,   \* what the build does for an out-of-range `f64 as i8`
    depth,      \* Deserializer.depth: Vec<DeType>
    root,       \* Deserializer.root
    calls,      \* the iterators on the call chain, outermost first
    pending,    \* the Err(..) being returned up the call chain, or NoErr
    pc,         \* "idle" | "run" | "unwind"
    results,    \* what from_collectd returned, one outcome per call
    capabilities, \* the bits of the plugin's PluginCapabilities
    should,     \* module_register's should_read, should_config, ...
    registered, \* the callbacks the host holds for the plugin
    frees,      \* how often collectd_plugin_free_user_data has run
    uaf,        \* a method has run on the instance after it was freed
    last,       \* the host's latest call: callback, return value, trace
    SHORT_VALUE, \* static mut SHORT_VALUE: Option<f64>
    MID_VALUE,  \* static mut MID_VALUE: Option<f64>
    LONG_VALUE, \* static mut LONG_VALUE: Option<f64>
    configured  \* the calls of my_config so far, with what they returned

deVars == <<depth, root, calls, pending, pc, results>>
pluginVars == <<capabilities, should, registered, frees, uaf, last>>
configVars == <<SHORT_VALUE, MID_VALUE, LONG_VALUE, configured>>

vars == <<input, shape, castMode, deVars, pluginVars, configVars>>

---------------------------------------------------------------------------
(* Bounds of the model.                                                    *)

MaxValues == 2      \* longest values list of a node
MaxSiblings == 2    \* most sibling nodes around the node under study
MaxRuns == 2        \* calls of from_collectd on the same input
NumScale == 2       \* f64 values are counted in units of 1/NumScale

---------------------------------------------------------------------------
(* Strings: sequences of code points.                                      *)

S_a == <<97>>
S_b == <<98>>
S_x == <<120>>
S_ab == <<97, 98>>
S_eacute == <<233>>
S_empty == <<>>

\* The number of bytes of the UTF-8 encoding of code point c.
Utf8Len(c) ==
    IF c < 128 THEN 1 ELSE IF c < 2048 THEN 2 ELSE IF c < 65536 THEN 3 ELSE 4

RECURSIVE SumUtf8(_)
SumUtf8(s) == IF s = <<>> THEN 0 ELSE Utf8Len(Head(s)) + SumUtf8(Tail(s))

\* The number of characters of s (str::chars().count()).
CharCount(s) == Len(s)

\* str::len(): the length of s in bytes.
StrLen(s) == SumUtf8(s)

---------------------------------------------------------------------------
(* ConfigValue and ConfigItem (api), DeError, decoded values.              *)

CvString(s) == [tag |-> "String", b |-> FALSE, n |-> 0, s |-> s]
CvNumber(n) == [tag |-> "Number", b |-> FALSE, n |-> n, s |-> <<>>]
CvBoolean(b) == [tag |-> "Boolean", b |-> b, n |-> 0, s |-> <<>>]

ConfigItem(key, values, children) ==
    [key |-> key, values |-> values, children |-> children]

Err(kind) == [kind |-> kind, arg |-> <<>>]
ErrArg(kind, arg) == [kind |-> kind, arg |-> arg]
NoErr == Err("none")

\* Values the visitors build.  xs holds the parts of a compound value: the
\* elements of a Vec, the content of Some, the fields of a struct in the
\* order of their declaration.
Val(t, b, n, s, xs) == [t |-> t, b |-> b, n |-> n, s |-> s, xs |-> xs]
VBool(b) == Val("bool", b, 0, <<>>, <<>>)
VNum(n) == Val("num", FALSE, n, <<>>, <<>>)
VInt(n) == Val("int", FALSE, n, <<>>, <<>>)
VStr(s) == Val("str", FALSE, 0, s, <<>>)
VChar(c) == Val("char", FALSE, c, <<>>, <<>>)
VSome(v) == Val("some", FALSE, 0, <<>>, <<v>>)
VNone == Val("none", FALSE, 0, <<>>, <<>>)
VUnit == Val("unit", FALSE, 0, <<>>, <<>>)
VSeq(xs) == Val("seq", FALSE, 0, <<>>, xs)
VStruct(xs) == Val("struct", FALSE, 0, <<>>, xs)

\* Result<T>: Ok(v) or Err(e).
Ok(v) == [ok |-> TRUE, val |-> v, err |-> NoErr]
Fail(e) == [ok |-> FALSE, val |-> VUnit, err |-> e]

---------------------------------------------------------------------------
(* Target shapes: the Deserialize implementations the tests derive.        *)

Ty(k, sub, fields, deny) == [k |-> k, sub |-> sub, fields |-> fields, deny |-> deny]
TBool == Ty("bool", <<>>, <<>>, FALSE)
TF64 == Ty("f64", <<>>, <<>>, FALSE)
TI8 == Ty("i8", <<>>, <<>>, FALSE)
TString == Ty("string", <<>>, <<>>, FALSE)
TChar == Ty("char", <<>>, <<>>, FALSE)
TIgnored == Ty("ignored", <<>>, <<>>, FALSE)
TOption(t) == Ty("option", <<t>>, <<>>, FALSE)
TVec(t) == Ty("seq", <<t>>, <<>>, FALSE)
\* A field identifier (what #[serde(field_identifier)] derives): its
\* Deserialize calls deserialize_identifier.
TIdentifier == Ty("identifier", <<>>, <<>>, FALSE)
\* The shapes whose method forward_to_deserialize_any! generates, and a
\* self-describing target, whose Deserialize calls deserialize_any itself.
ForwardedKinds ==
    { "bytes", "byte_buf", "unit", "unit_struct", "newtype_struct", "tuple",
      "tuple_struct", "map", "enum" }
TForwarded(k) == Ty(k, <<>>, <<>>, FALSE)
TAny == Ty("any", <<>>, <<>>, FALSE)
Field(name, ty) == [name |-> name, ty |-> ty]
\* deny: #[serde(deny_unknown_fields)]; without it unknown fields are ignored
TStruct(fields, deny) == Ty("struct", <<>>, fields, deny)


---------------------------------------------------------------------------
(* The inputs the model draws from.                                        *)

\* The first n values of the endless repetition of pattern p.
Cycle(p, n) == [i \in 1..n |-> p[((i - 1) % Len(p)) + 1]]

ValuePatterns ==
    { <<CvBoolean(TRUE), CvBoolean(FALSE)>>,
      <<CvString(S_a), CvString(S_ab)>>,
      <<CvString(S_eacute), CvString(S_empty)>>,
      <<CvString(S_b), CvNumber(1 * NumScale)>>,
      <<CvNumber(1 * NumScale), CvNumber(300 * NumScale)>>,
      <<CvNumber(300 * NumScale), CvBoolean(TRUE)>> }

ValueLists == { Cycle(p, n) : p \in ValuePatterns, n \in 0..MaxValues }

Leaf(key, values) == ConfigItem(key, values, <<>>)

ChildNodes ==
    { Leaf(S_a, <<CvBoolean(TRUE)>>),
      Leaf(S_a, <<CvNumber(3 * NumScale)>>),
      Leaf(S_a, <<CvString(S_ab)>>),
      Leaf(S_x, <<CvBoolean(TRUE), CvBoolean(FALSE)>>),
      ConfigItem(S_a, <<>>, <<Leaf(S_a, <<CvBoolean(FALSE)>>)>>) }

ChildLists ==
    {<<>>} \cup { <<c>> : c \in ChildNodes }
           \cup { <<Leaf(S_x, <<>>), c>> : c \in {Leaf(S_a, <<CvBoolean(TRUE)>>)} }
           \cup { <<c, Leaf(S_a, <<CvBoolean(TRUE)>>)>> :
                    c \in {Leaf(S_a, <<CvBoolean(TRUE)>>)} }

FocusNodes ==
    { ConfigItem(k, vs, cs) : k \in {S_a, S_x}, vs \in ValueLists, cs \in ChildLists }

\* The j-th sibling: keys b, c, ..., each with its own key as its one value.
Sibling(j) == Leaf(<<97 + j>>, <<CvString(<<97 + j>>)>>)
Siblings(n) == [j \in 1..n |-> Sibling(j)]

\* seq with x inserted so that it becomes element number i.
InsertAt(seq, i, x) == SubSeq(seq, 1, i - 1) \o <<x>> \o SubSeq(seq, i, Len(seq))

Inputs ==
    {<<>>} \cup
    { InsertAt(Siblings(n), i, f) :
        <<n, i, f>> \in { t \in (0..MaxSiblings) \X (1..(MaxSiblings + 1)) \X FocusNodes :
                            t[2] <= t[1] + 1 } }

FieldTypes ==
    { TBool, TF64, TI8, TString, TChar,
      TOption(TBool), TOption(TString), TOption(TVec(TBool)),
      TVec(TBool), TVec(TString), TVec(TOption(TF64)), TVec(TVec(TBool)),
      TVec(TStruct(<<Field(S_a, TBool)>>, FALSE)),
      TStruct(<<Field(S_a, TBool)>>, FALSE),
      TStruct(<<Field(S_a, TF64)>>, TRUE),
      TStruct(<<Field(S_a, TChar)>>, FALSE),
      TStruct(<<Field(S_x, TVec(TBool))>>, FALSE),
      TStruct(<<Field(S_a, TStruct(<<Field(S_a, TBool)>>, FALSE))>>, FALSE),
      TOption(TStruct(<<Field(S_a, TOption(TBool))>>, FALSE)) }

\* Targets that are no struct, vector, option or scalar.
DynamicTypes == { TForwarded(k) : k \in ForwardedKinds } \cup {TAny}
OtherTypes == DynamicTypes \cup {TIdentifier}

Shapes ==
    { TStruct(<<Field(S_a, t), Field(S_b, TOption(TString))>>, FALSE) :
        t \in FieldTypes \cup OtherTypes \cup { TVec(o) : o \in OtherTypes } }
    \cup { TStruct(<<Field(S_a, t)>>, TRUE) : t \in {TBool, TOption(TString)} }
    \cup { TStruct(<<Field(S_b, TChar), Field(S_a, TOption(TBool))>>, FALSE),
           TOption(TStruct(<<Field(S_a, TOption(TBool))>>, FALSE)),
           TBool, TF64, TI8, TString, TChar, TVec(TBool), TOption(TBool) }
    \cup OtherTypes

---------------------------------------------------------------------------
(* PluginCapabilities: the bitflags a plugin advertises.                   *)

CONFIG == 1
READ == 2
INIT == 4
LOG == 8
WRITE == 16
FLUSH == 32

Flags == {CONFIG, READ, INIT, LOG, WRITE, FLUSH}

\* bits & bits and bits | bits
RECURSIVE BitAnd(_, _)
BitAnd(a, b) ==
    IF a = 0 \/ b = 0 THEN 0
    ELSE (a % 2) * (b % 2) + 2 * BitAnd(a \div 2, b \div 2)

RECURSIVE BitOr(_, _)
BitOr(a, b) ==
    IF a = 0 THEN b
    ELSE IF b = 0 THEN a
    ELSE (IF a % 2 = 1 \/ b % 2 = 1 THEN 1 ELSE 0) + 2 * BitOr(a \div 2, b \div 2)

\* #[derive(Default)]: no bit set
PluginCapabilities_default == BitAnd(0, 0)

intersects(self, other) == BitAnd(self, other) # 0

has_read(self) == intersects(self, READ)

has_config_read(self) == intersects(self, READ)

has_config(self) == intersects(self, CONFIG)

has_init(self) == intersects(self, INIT)

has_log(self) == intersects(self, LOG)

has_write(self) == intersects(self, WRITE)

has_flush(self) == intersects(self, FLUSH)

\* The six answers module_register takes from pl.capabilities(); asked is
\* FALSE until it has taken them.
Should(asked, r, c, i, l, w, f) ==
    [asked |-> asked, read |-> r, config |-> c, init |-> i, log |-> l,
     write |-> w, flush |-> f]
NotAsked == Should(FALSE, FALSE, FALSE, FALSE, FALSE, FALSE, FALSE)

---------------------------------------------------------------------------
(* collectd_plugin!: the callbacks module_register hands to the host and   *)
(* the one boxed instance behind them.  A callback's run is folded over a  *)
(* record st = [registered, frees, uaf, trace, log_results]; trace lists   *)
(* what the run did, in order.                                             *)

Callbacks == {"read", "write", "init", "config", "log", "flush"}

\* The registrations that are given `&mut data`, whose free_func is
\* collectd_plugin_free_user_data; init and config use
\* COLLECTD_PLUGIN_FOR_INIT instead.
WithUserData == {"read", "write", "log", "flush"}

\* What plugin.log returns on its successive invocations during one host
\* call (TRUE is Ok); once the list is used up it returns Ok.
MaxLogResults == 2
LogResults == UNION {[1..n -> BOOLEAN] : n \in 0..MaxLogResults}

Event(e, what, flag) == [e |-> e, what |-> what, flag |-> flag]
Emit(st, ev) == [st EXCEPT !.trace = Append(@, ev)]

NoCallback == [cb |-> "none", ret |-> {}, trace |-> <<>>]

\* The callbacks module_register registers, from its should_* answers.
registrations_swapped(sh) ==
    {cb \in Callbacks :
        \/ cb = "read" /\ sh.read
        \/ cb = "write" /\ sh.write
        \/ cb = "init" /\ sh.config
        \/ cb = "config" /\ sh.init
        \/ cb = "log" /\ sh.log
        \/ cb = "flush" /\ sh.flush}
registrations(sh) ==
    {cb \in Callbacks :
        \/ cb = "read" /\ sh.read
        \/ cb = "write" /\ sh.write
        \/ cb = "init" /\ sh.init
        \/ cb = "config" /\ sh.config
        \/ cb = "log" /\ sh.log
        \/ cb = "flush" /\ sh.flush}

\* plugin.<method>(..) on the instance behind the raw pointer; flag is
\* whether it returned Ok.  A call after the free is a use after free.
method_call(st, method, ok) ==
    [st EXCEPT !.uaf = @ \/ st.frees > 0,
               !.trace = Append(@, Event("call", method, ok))]

\* Box::from_raw(ptr); dropped at once: the instance is freed.  flag is
\* whether this is the first free.
collectd_plugin_free_user_data(st) ==
    [st EXCEPT !.frees = @ + 1,
               !.trace = Append(@, Event("free", "instance", st.frees = 0))]

\* The host drops a registration; one that was given user data has its
\* free_func called on it.
host_unregister(st, cb) ==
    IF cb \notin st.registered
    THEN Emit(st, Event("unregister", cb, FALSE))
    ELSE LET gone == Emit([st EXCEPT !.registered = @ \ {cb}],
                          Event("unregister", cb, TRUE))
         IN  IF cb \in WithUserData
             THEN collectd_plugin_free_user_data(gone)
             ELSE gone

plugin_unregister_log(st) == host_unregister(st, "log")

RECURSIVE collectd_log(_, _)

\* if let Err(ref e) = plugin.log(lvl, msg) { .. }
log_failed_reports_first(st) ==
    plugin_unregister_log(
        collectd_log(method_call(st, "name", TRUE), "logging error"))
log_failed(st) ==
    collectd_log(plugin_unregister_log(method_call(st, "name", TRUE)),
                 "logging error")

\* The body of collectd_plugin_log; valid is whether the message converts
\* to a String.
collectd_plugin_log(st, valid) ==
    IF ~valid
    THEN st
    ELSE LET ok == st.log_results = <<>> \/ Head(st.log_results)
             rest == IF st.log_results = <<>> THEN <<>>
                     ELSE Tail(st.log_results)
             logged == method_call([st EXCEPT !.log_results = rest],
                                   "log", ok)
         IN  IF ok THEN logged ELSE log_failed(logged)

\* collectd_log(Error, text): the host hands the message to every
\* registered logger; flag is whether this plugin's logger is one of them,
\* and then collectd_plugin_log runs on the message.
collectd_log(st, text) ==
    LET own == "log" \in st.registered
        reported == Emit(st, Event("report", text, own))
    IN  IF own THEN collectd_plugin_log(reported, TRUE) ELSE reported

\* if let Err(ref e) = plugin.<method>(..) { collectd_log(..); -1 } else { 0 }
report_result(st, method, ok, text) ==
    LET called == method_call(st, method, ok)
    IN  IF ok THEN [st |-> called, ret |-> {0}]
        ELSE [st |-> collectd_log(called, text), ret |-> {-1}]

collectd_plugin_read(st, ok) ==
    report_result(st, "read_values", ok, "read error")

\* decoded is whether RecvValueList::from succeeds.
collectd_plugin_write(st, decoded, ok) ==
    IF ~decoded
    THEN [st |-> collectd_log(st, "Unable to decode collectd data"),
          ret |-> {-1}]
    ELSE report_result(st, "write_values", ok, "writing error")

collectd_plugin_init(st, ok) ==
    [st |-> method_call(st, "initialize", ok),
     ret |-> IF ok THEN {0} ELSE {-1}]

\* valid is whether the identifier is UTF-8.
collectd_plugin_flush(st, valid, ok) ==
    IF ~valid
    THEN [st |-> st, ret |-> {-1}]
    ELSE report_result(st, "flush", ok, "flush error")

\* converted is whether ConfigItem::from succeeds.
collectd_plugin_complex_config(st, converted, ok) ==
    IF ~converted
    THEN [st |-> st, ret |-> {-1}]
    ELSE report_result(st, "config", ok, "config error")

---------------------------------------------------------------------------
(* lib.rs: the key/value config callback and its three stored values.     *)

None == [some |-> FALSE, val |-> 0]
Some(v) == [some |-> TRUE, val |-> v]

\* A C string is its sequence of bytes; InvalidByte is a byte that is not
\* UTF-8.
InvalidByte == "\\377"
Str_Short == <<"S", "h", "o", "r", "t">>
Str_Mid == <<"M", "i", "d">>
Str_Long == <<"L", "o", "n", "g">>

\* CString::into_string: Err on bytes that are not UTF-8.
into_string(cs) ==
    IF \E i \in 1..Len(cs) : cs[i] = InvalidByte
    THEN [ok |-> FALSE, str |-> <<>>]
    ELSE [ok |-> TRUE, str |-> cs]

Digits == {"0", "1", "2"}
DigitValue(c) == IF c = "0" THEN 0 ELSE IF c = "1" THEN 1 ELSE 2

RECURSIVE Decimal(_)
Decimal(ds) ==
    IF ds = <<>> THEN 0
    ELSE 10 * Decimal(SubSeq(ds, 1, Len(ds) - 1)) + DigitValue(ds[Len(ds)])

\* str::parse::<f64> on the strings of ConfigValues: an optional sign and
\* one or more decimal digits.
parse_f64(str) ==
    LET signed == str # <<>> /\ str[1] \in {"-", "+"}
        ds == IF signed THEN Tail(str) ELSE str
    IN  IF ds # <<>> /\ \A i \in 1..Len(ds) : ds[i] \in Digits
        THEN [ok |-> TRUE,
              val |-> IF signed /\ str[1] = "-" THEN 0 - Decimal(ds)
                      ELSE Decimal(ds)]
        ELSE [ok |-> FALSE, val |-> 0]

ConfigKeys ==
    {Str_Short, Str_Mid, Str_Long, <<"s", "h", "o", "r", "t">>,
     <<"L", "o", "n", "g", InvalidByte>>}
ConfigValues ==
    {<<>>, <<"1">>, <<"0", "1">>, <<"-", "2">>, <<"1", "x">>,
     <<"2", InvalidByte>>}

MaxConfigCalls == 3

\* parse_config on the statics st = [short, mid, long]: Ok(()) with the
\* keyed static set, or Err with the statics as they were.
parse_config_sets_first(st, key, value) ==
    LET k == into_string(key)
        v == into_string(value)
        slot == IF k.str = Str_Short THEN "short"
                ELSE IF k.str = Str_Mid THEN "mid"
                ELSE IF k.str = Str_Long THEN "long"
                ELSE "none"
        val == parse_f64(v.str)
    IN  IF ~k.ok \/ ~v.ok \/ slot = "none" THEN [ok |-> FALSE, st |-> st]
        ELSE IF ~val.ok
        THEN [ok |-> FALSE, st |-> [st EXCEPT ![slot] = Some(0)]]
        ELSE [ok |-> TRUE, st |-> [st EXCEPT ![slot] = Some(val.val)]]
parse_config(st, key, value) ==
    LET k == into_string(key)
        v == into_string(value)
        slot == IF k.str = Str_Short THEN "short"
                ELSE IF k.str = Str_Mid THEN "mid"
                ELSE IF k.str = Str_Long THEN "long"
                ELSE "none"
        val == parse_f64(v.str)
    IN  IF ~k.ok \/ ~v.ok \/ slot = "none" \/ ~val.ok
        THEN [ok |-> FALSE, st |-> st]
        ELSE [ok |-> TRUE, st |-> [st EXCEPT ![slot] = Some(val.val)]]

\* my_config: 0 on Ok(()), -1 (after plugin_log) on Err.
my_config(st, key, value) ==
    LET parsed == parse_config(st, key, value)
    IN  [ret |-> IF parsed.ok THEN 0 ELSE -1, st |-> parsed.st]

PluginIdle ==
    /\ capabilities = PluginCapabilities_default
    /\ should = NotAsked
    /\ registered = {}
    /\ frees = 0
    /\ uaf = FALSE
    /\ last = NoCallback

ConfigIdle ==
    /\ SHORT_VALUE = None
    /\ MID_VALUE = None
    /\ LONG_VALUE = None
    /\ configured = <<>>

---------------------------------------------------------------------------
RECURSIVE MentionsI8(_)
MentionsI8(t) ==
    \/ t.k = "i8"
    \/ \E i \in 1..Len(t.sub) : MentionsI8(t.sub[i])
    \/ \E i \in 1..Len(t.fields) : MentionsI8(t.fields[i].ty)

Init ==
    /\ input \in Inputs
    /\ shape \in Shapes
    /\ castMode \in (IF MentionsI8(shape) THEN {"wrap", "saturate"} ELSE {"wrap"})
    /\ depth = <<>>
    /\ root = TRUE
    /\ calls = <<>>
    /\ pending = NoErr
    /\ pc = "idle"
    /\ results = <<>>
    /\ PluginIdle
    /\ ConfigIdle

---------------------------------------------------------------------------
(* The engine: Deserializer and its de::Deserializer implementation.       *)

\* A node is referred to by its path: the indices, from the top-level slice
\* down, that lead to it.
RECURSIVE NodeIn(_, _)
NodeIn(items, path) ==
    IF Len(path) = 1 THEN items[path[1]]
    ELSE NodeIn(items[path[1]].children, Tail(path))

NodeAt(path) == NodeIn(input, path)

\* The slice an iterator walks: the top-level slice, or a node's children.
ItemsOf(parent) == IF parent = <<>> THEN input ELSE NodeAt(parent).children

\* enum DeType
DeStruct(path) == [k |-> "Struct", path |-> path, idx |-> 0]
DeSeq(path, i) == [k |-> "Seq", path |-> path, idx |-> i]

\* Result<&ConfigValue>
GOk(cv) == [ok |-> TRUE, cv |-> cv, err |-> NoErr]
GErr(e) == [ok |-> FALSE, cv |-> CvBoolean(FALSE), err |-> e]

\* What a deserialize_* call answers: a finished value, an error, a panic,
\* or an iterator handed to the visitor (visit_map / visit_seq); root is the
\* root flag after the call and wrap counts the visit_some calls the value
\* passes through on its way out.
Resp(kind, val, err, parent, ty, r) ==
    [kind |-> kind, val |-> val, err |-> err, parent |-> parent, ty |-> ty,
     wrap |-> 0, root |-> r]
RVal(v, r) == Resp("val", v, NoErr, <<>>, TIgnored, r)
RErr(e, r) == Resp("err", VUnit, e, <<>>, TIgnored, r)
RPanic(r) == Resp("panic", VUnit, Err("panic"), <<>>, TIgnored, r)
RMap(parent, ty, r) == Resp("map", VUnit, NoErr, parent, ty, r)
RSeq(parent, ty, r) == Resp("seq", VUnit, NoErr, parent, ty, r)

current_struct(d) == IF d = <<>> THEN Fail(Err("ExpectStruct")) ELSE Ok(VUnit)

current(d) == IF d = <<>> THEN Fail(Err("NoMoreValuesLeft")) ELSE Ok(VUnit)

grab_val_any(d) ==
    IF ~current(d).ok THEN GErr(current(d).err)
    ELSE LET top == d[Len(d)]
             item == NodeAt(top.path)
         IN  IF top.k = "Struct"
             THEN IF Len(item.values) = 0 THEN GErr(Err("ExpectSingleValue"))
                  ELSE GOk(item.values[1])
             ELSE GOk(item.values[top.idx])

grab_val(d) ==
    IF ~current(d).ok THEN GErr(current(d).err)
    ELSE LET top == d[Len(d)]
             item == NodeAt(top.path)
         IN  IF top.k = "Struct"
             THEN IF Len(item.values) # 1 THEN GErr(Err("ExpectSingleValue"))
                  ELSE GOk(item.values[1])
             ELSE GOk(item.values[top.idx])

grab_string(d) ==
    LET g == grab_val(d)
    IN  IF ~g.ok THEN g
        ELSE IF g.cv.tag = "String" THEN g ELSE GErr(Err("ExpectString"))

grab_bool_tag_first(d) ==
    IF d # <<>> /\ d[Len(d)].k = "Struct"
         /\ NodeAt(d[Len(d)].path).values # <<>>
         /\ NodeAt(d[Len(d)].path).values[1].tag # "Boolean"
    THEN GErr(Err("ExpectBoolean"))
    ELSE LET g == grab_val(d)
         IN  IF ~g.ok THEN g
             ELSE IF g.cv.tag = "Boolean" THEN g ELSE GErr(Err("ExpectBoolean"))

grab_bool(d) ==
    LET g == grab_val(d)
    IN  IF ~g.ok THEN g
        ELSE IF g.cv.tag = "Boolean" THEN g ELSE GErr(Err("ExpectBoolean"))

grab_number(d) ==
    LET g == grab_val(d)
    IN  IF ~g.ok THEN g
        ELSE IF g.cv.tag = "Number" THEN g ELSE GErr(Err("ExpectNumber"))

\* `x as i8`: truncation toward zero; out of range the result is what the
\* build makes of it (castMode).
Trunc(n) == IF n >= 0 THEN n \div NumScale ELSE -((-n) \div NumScale)

CastI8(n) ==
    LET t == Trunc(n)
    IN  IF t >= -128 /\ t <= 127 THEN t
        ELSE IF castMode = "wrap" THEN ((t + 128) % 256) - 128
        ELSE IF t > 127 THEN 127 ELSE -128

deserialize_bool(d, r) ==
    LET g == grab_bool(d)
    IN  IF g.ok THEN RVal(VBool(g.cv.b), r) ELSE RErr(g.err, r)

deserialize_string(d, r) ==
    LET g == grab_string(d)
    IN  IF g.ok THEN RVal(VStr(g.cv.s), r) ELSE RErr(g.err, r)

deserialize_i8(d, r) ==
    LET g == grab_number(d)
    IN  IF g.ok THEN RVal(VInt(CastI8(g.cv.n)), r) ELSE RErr(g.err, r)

deserialize_f64(d, r) ==
    LET g == grab_number(d)
    IN  IF g.ok THEN RVal(VNum(g.cv.n), r) ELSE RErr(g.err, r)

deserialize_char(d, r) ==
    LET g == grab_string(d)
    IN  IF ~g.ok THEN RErr(g.err, r)
        ELSE IF StrLen(g.cv.s) # 1 THEN RErr(ErrArg("ExpectChar", g.cv.s), r)
        ELSE RVal(VChar(g.cv.s[1]), r)

\* The identifier of the node in the top frame: Ok(VStr(name)), Err or panic.
identifier_and(d, r) ==
    IF d = <<>> THEN RPanic(r)
    ELSE LET top == d[Len(d)]
             item == NodeAt(top.path)
         IN  IF top.k # "Struct" THEN RErr(Err("ExpectStruct"), r)
             ELSE IF item.children = <<>> /\ item.values = <<>>
                  THEN RVal(VStr(item.key), r)
             ELSE IF item.values # <<>> /\ item.values[1].tag = "String"
                  THEN RVal(VStr(item.values[1].s), r)
             ELSE RErr(Err("ExpectString"), r)

identifier_key(d, r) ==
    IF d = <<>> THEN RPanic(r)
    ELSE LET top == d[Len(d)]
             item == NodeAt(top.path)
         IN  IF top.k # "Struct" THEN RErr(Err("ExpectStruct"), r)
             ELSE RVal(VStr(item.key), r)

deserialize_identifier(d, r) ==
    IF d = <<>> THEN RPanic(r)
    ELSE LET top == d[Len(d)]
             item == NodeAt(top.path)
         IN  IF top.k # "Struct" THEN RErr(Err("ExpectStruct"), r)
             ELSE IF item.children = <<>> \/ item.values = <<>>
                  THEN RVal(VStr(item.key), r)
             ELSE IF item.values[1].tag = "String"
                  THEN RVal(VStr(item.values[1].s), r)
             ELSE RErr(Err("ExpectString"), r)

deserialize_seq_nested(t, d, r) ==
    IF ~current(d).ok THEN RErr(current(d).err, r)
    ELSE RSeq(d[Len(d)].path, t.sub[1], r)

deserialize_seq(t, d, r) ==
    IF ~current(d).ok THEN RErr(current(d).err, r)
    ELSE LET top == d[Len(d)]
         IN  IF top.k = "Struct" THEN RSeq(top.path, t.sub[1], r)
             ELSE RErr(Err("ExpectStruct"), r)

deserialize_struct_input(t, d, r) == RMap(<<>>, t, FALSE)

deserialize_struct_keep_root(t, d, r) ==
    IF r THEN RMap(<<>>, t, TRUE)
    ELSE IF ~current(d).ok THEN RErr(current(d).err, r)
    ELSE LET top == d[Len(d)]
         IN  IF top.k = "Struct" THEN RMap(top.path, t, r)
             ELSE RErr(Err("ExpectStruct"), r)

deserialize_struct(t, d, r) ==
    IF r THEN RMap(<<>>, t, FALSE)
    ELSE IF ~current(d).ok THEN RErr(current(d).err, r)
    ELSE LET top == d[Len(d)]
         IN  IF top.k = "Struct" THEN RMap(top.path, t, r)
             ELSE RErr(Err("ExpectStruct"), r)

ignored_as_any(d, r) == RErr(Err("DataTypeNotSupported"), r)

ignored_sets_root(d, r) == RVal(VUnit, TRUE)

deserialize_ignored_any(d, r) == RVal(VUnit, r)

any_on_frame(d, r) ==
    IF ~current(d).ok THEN RErr(current(d).err, r)
    ELSE RErr(Err("DataTypeNotSupported"), r)

deserialize_any(d, r) == RErr(Err("DataTypeNotSupported"), r)

\* Option's visitor: visit_some(de) is T::deserialize(de).map(Some).
visit_some(resp) ==
    IF resp.kind = "val" THEN [resp EXCEPT !.val = VSome(resp.val)]
    ELSE IF resp.kind \in {"map", "seq"} THEN [resp EXCEPT !.wrap = resp.wrap + 1]
    ELSE resp

\* T::deserialize(de) for the target shape t: the engine method serde's
\* implementation for t calls.  deserialize_option hands the engine itself
\* to visit_some.
RECURSIVE Deserialize(_, _, _)
deserialize_option_none(t, d, r) ==
    IF d # <<>> /\ d[Len(d)].k = "Struct" /\ NodeAt(d[Len(d)].path).values = <<>>
    THEN RVal(VNone, r)
    ELSE visit_some(Deserialize(t.sub[1], d, r))

deserialize_option(t, d, r) == visit_some(Deserialize(t.sub[1], d, r))

Deserialize(t, d, r) ==
    CASE t.k = "bool" -> deserialize_bool(d, r)
      [] t.k = "f64" -> deserialize_f64(d, r)
      [] t.k = "i8" -> deserialize_i8(d, r)
      [] t.k = "string" -> deserialize_string(d, r)
      [] t.k = "char" -> deserialize_char(d, r)
      [] t.k = "option" -> deserialize_option(t, d, r)
      [] t.k = "seq" -> deserialize_seq(t, d, r)
      [] t.k = "struct" -> deserialize_struct(t, d, r)
      [] t.k = "ignored" -> deserialize_ignored_any(d, r)
      [] t.k = "identifier" -> deserialize_identifier(d, r)
      [] t.k \in ForwardedKinds -> deserialize_any(d, r)
      [] OTHER -> deserialize_any(d, r)

---------------------------------------------------------------------------
(* The iterators and the visitors that drive them.                         *)

\* FieldSeparated::new / SeqSeparated::new, with the state of the visitor
\* that owns the iterator: field is the field the last key named (0: none
\* yet, -1: a field to ignore), slots the fields decoded so far, elems the
\* elements decoded so far.
NewCall(k, ty, parent, wrap) ==
    [k |-> k, ty |-> ty, parent |-> parent, pos |-> 1, first |-> TRUE,
     field |-> 0,
     slots |-> [i \in 1..Len(ty.fields) |-> <<>>],
     elems |-> <<>>, wrap |-> wrap]

FieldSeparated_new(resp) == NewCall("map", resp.ty, resp.parent, resp.wrap)
SeqSeparated_new(resp) == NewCall("seq", resp.ty, resp.parent, resp.wrap)

Front(s) == SubSeq(s, 1, Len(s) - 1)
Last(s) == s[Len(s)]

\* What an iterator step does to the engine and to the iterator itself.
\* kind: "end" (Ok(None)), "next" (an entry was made current), "panic".
IterStep(kind, d, it) == [kind |-> kind, depth |-> d, it |-> it]

next_key_frame_pop(d, it) ==
    LET items == ItemsOf(it.parent)
        frame == DeStruct(Append(it.parent, it.pos))
    IN  IF it.pos > Len(items)
        THEN IF d = <<>> THEN IterStep("panic", d, it)
             ELSE IterStep("end", Front(d), it)
        ELSE IterStep("next",
                 IF it.first \/ d = <<>> THEN Append(d, frame)
                 ELSE [d EXCEPT ![Len(d)] = frame],
                 [it EXCEPT !.first = FALSE, !.pos = it.pos + 1])

next_key_frame_push(d, it) ==
    LET items == ItemsOf(it.parent)
        frame == DeStruct(Append(it.parent, it.pos))
    IN  IF it.pos > Len(items)
        THEN IF ~it.first
             THEN IF d = <<>> THEN IterStep("panic", d, it)
                  ELSE IterStep("end", Front(d), it)
             ELSE IterStep("end", d, it)
        ELSE IterStep("next", Append(d, frame),
                 [it EXCEPT !.first = FALSE, !.pos = it.pos + 1])

\* FieldSeparated::next_key_seed up to the call of the seed.
next_key_frame(d, it) ==
    LET items == ItemsOf(it.parent)
        frame == DeStruct(Append(it.parent, it.pos))
    IN  IF it.pos > Len(items)
        THEN IF ~it.first
             THEN IF d = <<>> THEN IterStep("panic", d, it)
                  ELSE IterStep("end", Front(d), it)
             ELSE IterStep("end", d, it)
        ELSE IterStep("next",
                 IF it.first \/ d = <<>> THEN Append(d, frame)
                 ELSE [d EXCEPT ![Len(d)] = frame],
                 [it EXCEPT !.first = FALSE, !.pos = it.pos + 1])

next_element_frame_first(d, it) ==
    LET values == NodeAt(it.parent).values
        frame == DeSeq(it.parent, 1)
    IN  IF it.pos > Len(values)
        THEN IF ~it.first
             THEN IF d = <<>> THEN IterStep("panic", d, it)
                  ELSE IterStep("end", Front(d), it)
             ELSE IterStep("end", d, it)
        ELSE IF it.first
             THEN IterStep("next", Append(d, frame),
                           [it EXCEPT !.first = FALSE, !.pos = it.pos + 1])
        ELSE IF d = <<>> THEN IterStep("panic", d, it)
        ELSE IterStep("next", [d EXCEPT ![Len(d)] = frame],
                      [it EXCEPT !.pos = it.pos + 1])

next_element_frame_push(d, it) ==
    LET values == NodeAt(it.parent).values
        frame == DeSeq(it.parent, it.pos)
    IN  IF it.pos > Len(values)
        THEN IF ~it.first
             THEN IF d = <<>> THEN IterStep("panic", d, it)
                  ELSE IterStep("end", Front(d), it)
             ELSE IterStep("end", d, it)
        ELSE IterStep("next", Append(d, frame),
                      [it EXCEPT !.first = FALSE, !.pos = it.pos + 1])

next_element_frame_replace(d, it) ==
    LET values == NodeAt(it.parent).values
        frame == DeSeq(it.parent, it.pos)
    IN  IF it.pos > Len(values)
        THEN IF ~it.first
             THEN IF d = <<>> THEN IterStep("panic", d, it)
                  ELSE IterStep("end", Front(d), it)
             ELSE IterStep("end", d, it)
        ELSE IF d = <<>> THEN IterStep("panic", d, it)
        ELSE IterStep("next", [d EXCEPT ![Len(d)] = frame],
                      [it EXCEPT !.first = FALSE, !.pos = it.pos + 1])

next_element_frame_pop(d, it) ==
    LET values == NodeAt(it.parent).values
        frame == DeSeq(it.parent, it.pos)
    IN  IF it.pos > Len(values)
        THEN IF d = <<>> THEN IterStep("panic", d, it)
             ELSE IterStep("end", Front(d), it)
        ELSE IF it.first
             THEN IterStep("next", Append(d, frame),
                           [it EXCEPT !.first = FALSE, !.pos = it.pos + 1])
        ELSE IF d = <<>> THEN IterStep("panic", d, it)
        ELSE IterStep("next", [d EXCEPT ![Len(d)] = frame],
                      [it EXCEPT !.pos = it.pos + 1])

\* SeqSeparated::next_element_seed up to the call of the seed.
next_element_frame(d, it) ==
    LET values == NodeAt(it.parent).values
        frame == DeSeq(it.parent, it.pos)
    IN  IF it.pos > Len(values)
        THEN IF ~it.first
             THEN IF d = <<>> THEN IterStep("panic", d, it)
                  ELSE IterStep("end", Front(d), it)
             ELSE IterStep("end", d, it)
        ELSE IF it.first
             THEN IterStep("next", Append(d, frame),
                           [it EXCEPT !.first = FALSE, !.pos = it.pos + 1])
        ELSE IF d = <<>> THEN IterStep("panic", d, it)
        ELSE IterStep("next", [d EXCEPT ![Len(d)] = frame],
                      [it EXCEPT !.pos = it.pos + 1])

\* The derived field visitor (visit_str): the index of the field called
\* name, -1 for a field to ignore, or the unknown_field error.
FieldIndex(ty, name) ==
    IF \E i \in 1..Len(ty.fields) : ty.fields[i].name = name
    THEN CHOOSE i \in 1..Len(ty.fields) : ty.fields[i].name = name
    ELSE -1

visit_str(ty, name) ==
    IF FieldIndex(ty, name) = -1 /\ ty.deny
    THEN Fail(ErrArg("SerdeError:unknown_field", name))
    ELSE Ok(VInt(FieldIndex(ty, name)))

\* The end of the derived visit_map: a field no key named is None if it is
\* an Option and the missing_field error otherwise.
MissingFields(ty, slots) ==
    { i \in 1..Len(ty.fields) : slots[i] = <<>> /\ ty.fields[i].ty.k # "option" }

Min(S) == CHOOSE x \in S : \A y \in S : x <= y

visit_map_end(ty, slots) ==
    IF MissingFields(ty, slots) # {}
    THEN Fail(ErrArg("SerdeError:missing_field",
                     ty.fields[Min(MissingFields(ty, slots))].name))
    ELSE Ok(VStruct([i \in 1..Len(ty.fields) |->
                        IF slots[i] = <<>> THEN VNone ELSE slots[i][1]]))

RECURSIVE WrapSome(_, _)
WrapSome(v, n) == IF n = 0 THEN v ELSE WrapSome(VSome(v), n - 1)

\* The visitor of the iterator on top of cs receives the value v it asked for.
Receive(cs, v) ==
    LET it == Last(cs)
    IN  IF it.k = "map"
        THEN Append(Front(cs),
                 [it EXCEPT !.field = 0,
                            !.slots = IF it.field > 0
                                      THEN [it.slots EXCEPT ![it.field] = <<v>>]
                                      ELSE it.slots])
        ELSE Append(Front(cs), [it EXCEPT !.elems = Append(it.elems, v)])

---------------------------------------------------------------------------
(* The steps of a decode.  NS is the state a step leaves behind.           *)

NS(d, r, cs, p, c, rs) ==
    [depth |-> d, root |-> r, calls |-> cs, pending |-> p, pc |-> c, results |-> rs]

\* The caller whose iterators are cs gets the answer resp of the
\* deserialize call it made: a value goes to the visitor that asked for it
\* (or to the caller of from_collectd), an iterator is handed to its
\* visitor, and an Err starts its way up the call chain (`?`, try!).
Respond(cs, resp, d) ==
    CASE resp.kind = "val" ->
            IF cs = <<>>
            THEN NS(d, resp.root, <<>>, NoErr, "idle", Append(results, Ok(resp.val)))
            ELSE NS(d, resp.root, Receive(cs, resp.val), NoErr, "run", results)
      [] resp.kind = "err" ->
            NS(d, resp.root, cs, resp.err, "unwind", results)
      [] resp.kind = "map" ->
            NS(d, resp.root, Append(cs, FieldSeparated_new(resp)), NoErr, "run", results)
      [] resp.kind = "seq" ->
            NS(d, resp.root, Append(cs, SeqSeparated_new(resp)), NoErr, "run", results)
      [] OTHER ->
            NS(d, resp.root, <<>>, NoErr, "idle", Append(results, Fail(resp.err)))

\* Deserializer::from_collectd: the engine a call of from_collectd creates.
Deserializer_reused == [input |-> input, depth |-> depth, root |-> root]

Deserializer_from_collectd == [input |-> input, depth |-> <<>>, root |-> TRUE]

\* from_collectd up to the first iterator step: T::deserialize(&mut de).
from_collectd ==
    LET de == Deserializer_from_collectd
    IN  Respond(<<>>, Deserialize(shape, de.depth, de.root), de.depth)

\* One turn of the derived visit_map loop, first half: map.next_key().
\* FieldSeparated::next_key_seed with the derived field visitor as seed.
next_key_seed(d, r, cs) ==
    LET it == Last(cs)
        s == next_key_frame(d, it)
        id == deserialize_identifier(s.depth, r)
        f == visit_str(it.ty, id.val.s)
        end == visit_map_end(it.ty, it.slots)
    IN  CASE s.kind = "end" ->
                Respond(Front(cs),
                        IF end.ok THEN RVal(WrapSome(end.val, it.wrap), r)
                        ELSE RErr(end.err, r),
                        s.depth)
          [] s.kind = "next" /\ id.kind = "val" /\ f.ok ->
                NS(s.depth, r, Append(Front(cs), [s.it EXCEPT !.field = f.val.n]),
                   NoErr, "run", results)
          [] s.kind = "next" /\ id.kind = "val" /\ ~f.ok ->
                Respond(Append(Front(cs), s.it), RErr(f.err, r), s.depth)
          [] s.kind = "next" /\ id.kind # "val" ->
                Respond(Append(Front(cs), s.it), id, s.depth)
          [] OTHER -> Respond(cs, RPanic(r), s.depth)

\* Second half: the duplicate_field check and map.next_value().
\* FieldSeparated::next_value_seed with the field's type as seed.
next_value_seed(d, r, cs) ==
    LET it == Last(cs)
        ty == IF it.field > 0 THEN it.ty.fields[it.field].ty ELSE TIgnored
    IN  IF it.field > 0 /\ it.slots[it.field] # <<>>
        THEN Respond(cs, RErr(ErrArg("SerdeError:duplicate_field",
                                     it.ty.fields[it.field].name), r), d)
        ELSE Respond(cs, Deserialize(ty, d, r), d)

\* One turn of the Vec visitor's loop: seq.next_element().
\* SeqSeparated::next_element_seed with the element type as seed.
next_element_seed(d, r, cs) ==
    LET it == Last(cs)
        s == next_element_frame(d, it)
    IN  CASE s.kind = "end" ->
                Respond(Front(cs), RVal(WrapSome(VSeq(it.elems), it.wrap), r), s.depth)
          [] s.kind = "next" ->
                Respond(Append(Front(cs), s.it), Deserialize(it.ty, s.depth, r), s.depth)
          [] OTHER -> Respond(cs, RPanic(r), s.depth)

\* An Err returns through one caller: the iterator's
\* seed.deserialize(..).map(Some) and its visitor's try! pass it on; the
\* last caller is from_collectd, which returns it.
propagate_cleanup(d, r, cs, e) ==
    IF cs = <<>>
    THEN NS(d, r, <<>>, NoErr, "idle", Append(results, Fail(e)))
    ELSE NS(IF d = <<>> THEN d ELSE Front(d), r, Front(cs), e, "unwind", results)

propagate(d, r, cs, e) ==
    IF cs = <<>>
    THEN NS(d, r, <<>>, NoErr, "idle", Append(results, Fail(e)))
    ELSE NS(d, r, Front(cs), e, "unwind", results)

Set(ns) ==
    /\ depth' = ns.depth
    /\ root' = ns.root
    /\ calls' = ns.calls
    /\ pending' = ns.pending
    /\ pc' = ns.pc
    /\ results' = ns.results
    /\ UNCHANGED <<input, shape, castMode, pluginVars, configVars>>

FromCollectd ==
    /\ pc = "idle"
    /\ Len(results) < MaxRuns
    /\ Set(from_collectd)

NextKeySeed ==
    /\ pc = "run"
    /\ Last(calls).k = "map"
    /\ Last(calls).field = 0
    /\ Set(next_key_seed(depth, root, calls))

NextValueSeed ==
    /\ pc = "run"
    /\ Last(calls).k = "map"
    /\ Last(calls).field # 0
    /\ Set(next_value_seed(depth, root, calls))

NextElementSeed ==
    /\ pc = "run"
    /\ Last(calls).k = "seq"
    /\ Set(next_element_seed(depth, root, calls))

Propagate ==
    /\ pc = "unwind"
    /\ Set(propagate(depth, root, calls, pending))

Next ==
    \/ FromCollectd
    \/ NextKeySeed
    \/ NextValueSeed
    \/ NextElementSeed
    \/ Propagate

Spec == Init /\ [][Next]_vars

---------------------------------------------------------------------------
(* The plugin side: a plugin's capabilities and what module_register       *)
(* reads from them.  No decode runs here.                                  *)

PluginInit ==
    /\ input = <<>>
    /\ shape = TBool
    /\ castMode = "wrap"
    /\ depth = <<>>
    /\ root = TRUE
    /\ calls = <<>>
    /\ pending = NoErr
    /\ pc = "idle"
    /\ results = <<>>
    /\ PluginIdle
    /\ ConfigIdle

\* capabilities | PluginCapabilities::F in the plugin's capabilities()
Advertise ==
    /\ ~should.asked
    /\ \E f \in Flags : capabilities' = BitOr(capabilities, f)
    /\ UNCHANGED <<input, shape, castMode, deVars, should, registered, frees,
                   uaf, last, configVars>>

\* module_register: "Grab all the properties we need", box the instance
\* and register the callbacks.  The host loads the plugin once.
ModuleRegister ==
    /\ ~should.asked
    /\ should' = Should(TRUE, has_read(capabilities), has_config(capabilities),
                        has_init(capabilities), has_log(capabilities),
                        has_write(capabilities), has_flush(capabilities))
    /\ registered' = registrations(should')
    /\ UNCHANGED <<input, shape, castMode, deVars, capabilities, frees, uaf,
                   last, configVars>>

\* The state a callback starts from and the state it leaves.
Entering(lr) ==
    [registered |-> registered, frees |-> frees, uaf |-> uaf,
     trace |-> <<>>, log_results |-> lr]
Leaving(cb, out) ==
    /\ registered' = out.st.registered
    /\ frees' = out.st.frees
    /\ uaf' = out.st.uaf
    /\ last' = [cb |-> cb, ret |-> out.ret, trace |-> out.st.trace]
    /\ UNCHANGED <<input, shape, castMode, deVars, capabilities, should,
                   configVars>>

\* The host calls a callback it holds.
ReadCallback ==
    /\ "read" \in registered
    /\ \E ok \in BOOLEAN, lr \in LogResults :
          Leaving("read", collectd_plugin_read(Entering(lr), ok))

WriteCallback ==
    /\ "write" \in registered
    /\ \E decoded \in BOOLEAN, ok \in BOOLEAN, lr \in LogResults :
          Leaving("write", collectd_plugin_write(Entering(lr), decoded, ok))

InitCallback ==
    /\ "init" \in registered
    /\ \E ok \in BOOLEAN :
          Leaving("init", collectd_plugin_init(Entering(<<>>), ok))

ConfigCallback ==
    /\ "config" \in registered
    /\ \E converted \in BOOLEAN, ok \in BOOLEAN, lr \in LogResults :
          Leaving("config",
                  collectd_plugin_complex_config(Entering(lr), converted, ok))

FlushCallback ==
    /\ "flush" \in registered
    /\ \E valid \in BOOLEAN, ok \in BOOLEAN, lr \in LogResults :
          Leaving("flush", collectd_plugin_flush(Entering(lr), valid, ok))

LogCallback ==
    /\ "log" \in registered
    /\ \E valid \in BOOLEAN, lr \in LogResults :
          Leaving("log", [st |-> collectd_plugin_log(Entering(lr), valid),
                          ret |-> {}])

\* The host drops one of the plugin's registrations (at shutdown, or when
\* the callback is unregistered by name).
HostUnregister ==
    \E cb \in registered :
        Leaving("unregister",
                [st |-> host_unregister(Entering(<<>>), cb), ret |-> {}])

PluginNext ==
    \/ Advertise
    \/ ModuleRegister
    \/ ReadCallback
    \/ WriteCallback
    \/ InitCallback
    \/ ConfigCallback
    \/ FlushCallback
    \/ LogCallback
    \/ HostUnregister

PluginSpec == PluginInit /\ [][PluginNext]_vars

---------------------------------------------------------------------------
(* The key/value config callback of lib.rs under the host's calls.         *)

ConfigInit ==
    /\ input = <<>>
    /\ shape = TBool
    /\ castMode = "wrap"
    /\ depth = <<>>
    /\ root = TRUE
    /\ calls = <<>>
    /\ pending = NoErr
    /\ pc = "idle"
    /\ results = <<>>
    /\ PluginIdle
    /\ ConfigIdle

Statics == [short |-> SHORT_VALUE, mid |-> MID_VALUE, long |-> LONG_VALUE]

\* The host calls my_config(key, value).
MyConfig ==
    /\ Len(configured) < MaxConfigCalls
    /\ \E key \in ConfigKeys, value \in ConfigValues :
          LET out == my_config(Statics, key, value)
          IN  /\ SHORT_VALUE' = out.st.short
              /\ MID_VALUE' = out.st.mid
              /\ LONG_VALUE' = out.st.long
              /\ configured' = Append(configured,
                     [key |-> key, value |-> value, ret |-> out.ret])
    /\ UNCHANGED <<input, shape, castMode, deVars, pluginVars>>

ConfigNext == MyConfig

ConfigSpec == ConfigInit /\ [][ConfigNext]_vars

---------------------------------------------------------------------------
(* Vocabulary of the properties.                                           *)

\* The field iterator on top of the call chain is about to make a node
\* current and ask for its identifier (next_key_seed, slice not exhausted).
AtKey ==
    /\ pc = "run"
    /\ calls # <<>>
    /\ Last(calls).k = "map"
    /\ Last(calls).field = 0
    /\ Last(calls).pos <= Len(ItemsOf(Last(calls).parent))

KeyNode == ItemsOf(Last(calls).parent)[Last(calls).pos]

\* The key of the node in the top frame has been resolved and its value is
\* about to be decoded (next_value_seed).
AtValue ==
    /\ pc = "run"
    /\ calls # <<>>
    /\ Last(calls).k = "map"
    /\ Last(calls).field # 0

TopNode == NodeAt(Last(depth).path)

\* The type the visitor asks for at AtValue.
ValueType ==
    IF Last(calls).field > 0 THEN Last(calls).ty.fields[Last(calls).field].ty
    ELSE TIgnored

\* The step taken resolved the identifier to name: the visitor now holds the
\* field of that name (or the field to ignore), unless the struct denies
\* the unknown name.
KeyNamed(name) ==
    LET it == Last(calls)
        idx == FieldIndex(it.ty, name)
    IN  IF idx = -1 /\ it.ty.deny
        THEN pc' = "unwind" /\ pending' = ErrArg("SerdeError:unknown_field", name)
        ELSE /\ pc' = "run"
             /\ Len(calls') = Len(calls)
             /\ Last(calls').field = idx
             /\ depth' # <<>>
             /\ Last(depth') = DeStruct(Append(it.parent, it.pos))

KeyFails(kind) == pc' = "unwind" /\ pending' = Err(kind)

IsScalarType(t) == t.k \in {"bool", "f64", "i8", "string", "char"}

\* The literal a scalar carries, as the value a matching target receives.
Literal(cv) ==
    CASE cv.tag = "Boolean" -> VBool(cv.b)
      [] cv.tag = "Number" -> VNum(cv.n)
      [] OTHER -> VStr(cv.s)

\* bool matches Boolean, f64 matches Number, String matches String.
Matches(t, cv) ==
    \/ t.k = "bool" /\ cv.tag = "Boolean"
    \/ t.k = "f64" /\ cv.tag = "Number"
    \/ t.k = "string" /\ cv.tag = "String"

Finished(i) == Len(results) >= i

---------------------------------------------------------------------------
(* C10: decode-as-identifier on a Struct frame.                            *)

\* C10 as claimed: the identifier is the node's own key if and only if the
\* node has no children AND no values; otherwise it is the first value when
\* that is a string, and ExpectString when it is not.
C10_KeyOnlyWithoutChildrenAndValues ==
    [][AtKey =>
        IF KeyNode.children = <<>> /\ KeyNode.values = <<>>
        THEN KeyNamed(KeyNode.key)
        ELSE IF KeyNode.values # <<>> /\ KeyNode.values[1].tag = "String"
             THEN KeyNamed(KeyNode.values[1].s)
             ELSE KeyFails("ExpectString")]_vars

\* C10 amended: the identifier is the node's own key if and only if the
\* node has no children OR no values; a node with at least one child and at
\* least one value yields its first value when that is a string, and fails
\* with ExpectString when it is not.
C10_KeyWithoutChildrenOrValues ==
    [][AtKey =>
        IF KeyNode.children = <<>> \/ KeyNode.values = <<>>
        THEN KeyNamed(KeyNode.key)
        ELSE IF KeyNode.values[1].tag = "String"
             THEN KeyNamed(KeyNode.values[1].s)
             ELSE KeyFails("ExpectString")]_vars

\* A node with values and no children has been given its own key.
C10_Witness ==
    /\ AtValue
    /\ TopNode.children = <<>>
    /\ TopNode.values # <<>>
    /\ TopNode.values[1].tag # "String"
    /\ Last(calls).field > 0
    /\ Last(calls).ty.fields[Last(calls).field].name = TopNode.key

---------------------------------------------------------------------------
(* C1: single-scalar nodes decode to their literal.                        *)

SimpleNode(n) == n.children = <<>> /\ Len(n.values) = 1

\* Option<T> receives Some of what T receives.
MatchesOpt(t, cv) == Matches(t, cv) \/ (t.k = "option" /\ Matches(t.sub[1], cv))
Expected(t, cv) == IF t.k = "option" THEN VSome(Literal(cv)) ELSE Literal(cv)

\* A Number without fractional part that an i8 holds.
WholeInI8(cv) ==
    /\ cv.tag = "Number"
    /\ cv.n % NumScale = 0
    /\ cv.n \div NumScale >= -128
    /\ cv.n \div NumScale <= 127

\* Every top-level node is a single-scalar node that the struct either does
\* not know and ignores, or decodes into a field of the matching type; and
\* every field no node names is optional.
Benign ==
    /\ shape.k = "struct"
    /\ \A i \in 1..Len(input) :
          /\ SimpleNode(input[i])
          /\ \A j \in 1..Len(input) : input[j].key = input[i].key => j = i
          /\ IF FieldIndex(shape, input[i].key) = -1 THEN ~shape.deny
             ELSE \/ MatchesOpt(shape.fields[FieldIndex(shape, input[i].key)].ty,
                               input[i].values[1])
                  \/ /\ shape.fields[FieldIndex(shape, input[i].key)].ty.k = "i8"
                     /\ WholeInI8(input[i].values[1])
    /\ \A f \in 1..Len(shape.fields) :
          \/ shape.fields[f].ty.k = "option"
          \/ \E i \in 1..Len(input) : input[i].key = shape.fields[f].name

\* The value step on a top-level single-scalar node whose key names a field
\* of the matching type: the key step chose that field, and the step stores
\* the literal in it without raising an error.
C1_Step ==
    (AtValue /\ Last(calls).parent = <<>> /\ SimpleNode(TopNode)
        /\ FieldIndex(shape, TopNode.key) > 0
        /\ Matches(shape.fields[FieldIndex(shape, TopNode.key)].ty, TopNode.values[1]))
    => LET f == FieldIndex(shape, TopNode.key)
       IN  /\ Last(calls).field = f
           /\ Last(calls).slots[f] = <<>> =>
                 /\ pc' = "run"
                 /\ Last(calls').slots =
                       [Last(calls).slots EXCEPT ![f] = <<Literal(TopNode.values[1])>>]

\* In the struct a successful decode returns, the field of such a node is
\* the literal; and the decode succeeds when every node is of that kind.
C1_Final ==
    (Finished(1) /\ shape.k = "struct") =>
        /\ results[1].ok =>
              \A i \in 1..Len(input) :
                 LET f == FieldIndex(shape, input[i].key)
                 IN  (SimpleNode(input[i]) /\ f > 0
                        /\ Matches(shape.fields[f].ty, input[i].values[1]))
                     => results[1].val.xs[f] = Literal(input[i].values[1])
        /\ results[1].ok =>
              \A i \in 1..Len(input) :
                 LET f == FieldIndex(shape, input[i].key)
                 IN  (SimpleNode(input[i]) /\ f > 0 /\ shape.fields[f].ty.k = "i8"
                        /\ WholeInI8(input[i].values[1]))
                     => results[1].val.xs[f] = VInt(input[i].values[1].n \div NumScale)
        /\ Benign => results[1].ok

\* C1: a top-level node without children and with exactly one Boolean,
\* Number or String value, decoded into a struct whose field of the node's
\* key has the matching type, succeeds and the field equals the literal;
\* the field name used is the node's own key.
C1_SingleScalarRoundTrips == []C1_Final /\ [][C1_Step]_vars

\* A decode has succeeded with a Number node and a String node, each in its
\* own field of the matching type.
C1_Witness ==
    /\ Finished(1)
    /\ results[1].ok
    /\ Benign
    /\ \E i \in 1..Len(input) :
          /\ input[i].values[1].tag = "Number"
          /\ FieldIndex(shape, input[i].key) > 0
          /\ Matches(shape.fields[FieldIndex(shape, input[i].key)].ty, input[i].values[1])
          /\ results[1].val.xs[FieldIndex(shape, input[i].key)] = VNum(input[i].values[1].n)

---------------------------------------------------------------------------
(* C2: named blocks.                                                       *)

NamedBlock(n) == n.children # <<>> /\ n.values # <<>> /\ n.values[1].tag = "String"

\* The example of test_serde_graphite, with the names of the model.
GraphiteInput ==
    <<ConfigItem(S_x, <<CvString(S_a)>>, <<Leaf(S_a, <<CvNumber(3 * NumScale)>>)>>)>>
GraphiteShape ==
    TStruct(<<Field(S_a, TStruct(<<Field(S_a, TF64)>>, TRUE)),
              Field(S_b, TOption(TString))>>, FALSE)

C2_Step ==
    /\ (AtKey /\ NamedBlock(KeyNode)) => KeyNamed(KeyNode.values[1].s)
    /\ (AtValue /\ NamedBlock(TopNode) /\ ValueType.k = "struct"
           /\ Last(calls).slots[Last(calls).field] = <<>>)
       => /\ calls' = Append(calls, NewCall("map", ValueType, Last(depth).path, 0))
          /\ depth' = depth
          /\ ItemsOf(Last(calls').parent) = TopNode.children

C2_Example ==
    (Finished(1) /\ input = GraphiteInput /\ shape = GraphiteShape)
    => results[1] = Ok(VStruct(<<VStruct(<<VNum(3 * NumScale)>>), VNone>>))

\* C2: for a node with at least one child whose first value is a string s,
\* the identifier is s, not the node's key, and a struct-typed field is then
\* decoded from the children of that same node.
C2_NamedBlock == []C2_Example /\ [][C2_Step]_vars

\* The graphite example has been decoded.
C2_Witness ==
    /\ Finished(1)
    /\ input = GraphiteInput
    /\ shape = GraphiteShape
    /\ results[1].ok
    /\ results[1].val.xs[1].xs[1] = VNum(3 * NumScale)

---------------------------------------------------------------------------
(* C3: unknown fields.                                                     *)

\* The identifier of a node, where decode-as-identifier yields one.
Resolvable(n) == n.children = <<>> \/ n.values = <<>> \/ n.values[1].tag = "String"
Resolved(n) ==
    IF n.children = <<>> \/ n.values = <<>> THEN n.key ELSE n.values[1].s

\* The struct ty ignores node n: n's identifier names none of its fields.
Skippable(ty, n) == ~ty.deny /\ Resolvable(n) /\ FieldIndex(ty, Resolved(n)) = -1

\* The visitor skips the node of the top frame: nothing is stored, pushed or
\* raised.
Skipped ==
    /\ pc' = "run"
    /\ depth' = depth
    /\ calls' = Append(Front(calls), [Last(calls) EXCEPT !.field = 0])

\* C3 as claimed: where unknown fields are ignored, a node whose KEY is not
\* a field of the target is skipped whatever its values and children are.
C3_UnknownKeySkipped ==
    [][(AtKey /\ ~Last(calls).ty.deny /\ FieldIndex(Last(calls).ty, KeyNode.key) = -1)
        => (pc' = "run" /\ Last(calls').field = -1)]_vars

\* Every top-level node is either one the struct skips or a single-scalar
\* node of a field of the matching type, and no field is named twice or
\* required and missing.
Orderly ==
    /\ shape.k = "struct"
    /\ \A i \in 1..Len(input) :
          \/ Skippable(shape, input[i])
          \/ /\ SimpleNode(input[i])
             /\ FieldIndex(shape, input[i].key) > 0
             /\ MatchesOpt(shape.fields[FieldIndex(shape, input[i].key)].ty,
                           input[i].values[1])
             /\ \A j \in 1..Len(input) :
                   (Resolvable(input[j]) /\ Resolved(input[j]) = input[i].key) => j = i
    /\ \A f \in 1..Len(shape.fields) :
          \/ shape.fields[f].ty.k = "option"
          \/ \E i \in 1..Len(input) :
                SimpleNode(input[i]) /\ input[i].key = shape.fields[f].name

\* What the recognized nodes alone decode to; the places of the nodes in the
\* slice do not enter.
RecognizedBy(f) ==
    { i \in 1..Len(input) : SimpleNode(input[i]) /\ input[i].key = shape.fields[f].name }

ExpectedStruct ==
    VStruct([f \in 1..Len(shape.fields) |->
        IF RecognizedBy(f) = {} THEN VNone
        ELSE Expected(shape.fields[f].ty,
                      input[CHOOSE i \in RecognizedBy(f) : TRUE].values[1])])

C3_Step ==
    /\ (AtKey /\ Skippable(Last(calls).ty, KeyNode))
          => /\ pc' = "run"
             /\ Last(calls').field = -1
             /\ Last(calls').slots = Last(calls).slots
    /\ (AtValue /\ Last(calls).field = -1) => Skipped

C3_Final == (Finished(1) /\ Orderly) => results[1] = Ok(ExpectedStruct)

\* C3 amended: where unknown fields are ignored, a node whose IDENTIFIER (its
\* own key if it has no children or no values, otherwise its first value,
\* which must be a string) is not a field of the target is skipped whatever
\* its values and children are, and the recognized siblings decode to the
\* same values wherever the node is placed among them.
C3_UnknownIdentifierSkipped == []C3_Final /\ [][C3_Step]_vars

\* A node with values and children, placed between two siblings, has been
\* skipped and the decode has succeeded with the sibling's field set.
C3_Witness ==
    /\ Finished(1)
    /\ Orderly
    /\ results[1].ok
    /\ Len(input) = 3
    /\ Skippable(shape, input[2])
    /\ input[2].children # <<>>
    /\ Len(input[2].values) = 2
    /\ results[1].val.xs[2] = VSome(VStr(S_b))

---------------------------------------------------------------------------
(* C4: single-value resolution.                                            *)

SlotFree == Last(calls).field > 0 /\ Last(calls).slots[Last(calls).field] = <<>>

\* v is what a target of scalar type t reads from the scalar cv.
ReadFrom(t, cv, v) ==
    CASE t.k = "bool" -> cv.tag = "Boolean" /\ v = VBool(cv.b)
      [] t.k = "f64" -> cv.tag = "Number" /\ v = VNum(cv.n)
      [] t.k = "i8" -> cv.tag = "Number" /\ v.t = "int"
      [] t.k = "string" -> cv.tag = "String" /\ v = VStr(cv.s)
      [] OTHER -> cv.tag = "String" /\ v = VChar(cv.s[1])

\* The element iterator on top of the call chain is about to make a value
\* current (next_element_seed, slice not exhausted).
AtElement ==
    /\ pc = "run"
    /\ calls # <<>>
    /\ Last(calls).k = "seq"
    /\ Last(calls).pos <= Len(NodeAt(Last(calls).parent).values)

ElementValue == NodeAt(Last(calls).parent).values[Last(calls).pos]

C4_Step ==
    /\ (AtValue /\ SlotFree /\ IsScalarType(ValueType))
          => /\ Last(depth).k = "Struct"
             /\ (pc' = "unwind" /\ pending' = Err("ExpectSingleValue"))
                   <=> Len(TopNode.values) # 1
             /\ (Len(TopNode.values) = 1 /\ pc' = "run")
                   => ReadFrom(ValueType, TopNode.values[1],
                               Last(calls').slots[Last(calls).field][1])
    /\ (AtElement /\ IsScalarType(Last(calls).ty))
          => /\ Last(depth') = DeSeq(Last(calls).parent, Last(calls).pos)
             /\ pending'.kind # "ExpectSingleValue"
             /\ pc' = "run" =>
                   /\ Len(Last(calls').elems) = Len(Last(calls).elems) + 1
                   /\ ReadFrom(Last(calls).ty, ElementValue, Last(Last(calls').elems))

\* C4: a scalar request on a Struct frame fails with ExpectSingleValue
\* exactly when the node has no value or at least two; with one value that
\* value is the scalar read; on a Sequence frame the frame's scalar is read
\* and ExpectSingleValue is never produced.
C4_SingleValueResolution == [][C4_Step]_vars

\* A scalar request on a node with two values has failed.
C4_Witness ==
    /\ pc = "unwind"
    /\ pending = Err("ExpectSingleValue")
    /\ calls # <<>>
    /\ Last(calls).k = "map"
    /\ Last(calls).field > 0
    /\ IsScalarType(ValueType)
    /\ Len(TopNode.values) = 2

---------------------------------------------------------------------------
(* C5: sequences.                                                          *)

\* Every value of node n is of the element type t (bool, f64, String, or an
\* Option of one of them).
AllOfType(n, t) == \A i \in 1..Len(n.values) : MatchesOpt(t, n.values[i])

ElementsOf(n, t, k) == [i \in 1..k |-> Expected(t, n.values[i])]

\* While the values of such a node are walked, no error is raised and the
\* elements built so far are the decodes of the values passed so far, in
\* their order.
C5_Progress ==
    \A k \in 1..Len(calls) :
        (calls[k].k = "seq" /\ AllOfType(NodeAt(calls[k].parent), calls[k].ty))
        => /\ pc = "run"
           /\ calls[k].elems =
                 ElementsOf(NodeAt(calls[k].parent), calls[k].ty, calls[k].pos - 1)

\* In the struct a successful decode returns, the sequence-typed field of
\* such a node has exactly the node's n values, in their order.
C5_Final ==
    (Finished(1) /\ shape.k = "struct" /\ results[1].ok) =>
        \A i \in 1..Len(input) :
            LET f == FieldIndex(shape, Resolved(input[i]))
            IN  (f > 0 /\ shape.fields[f].ty.k = "seq"
                   /\ AllOfType(input[i], shape.fields[f].ty.sub[1]))
                => results[1].val.xs[f] =
                      VSeq(ElementsOf(input[i], shape.fields[f].ty.sub[1],
                                      Len(input[i].values)))

\* The sequence request on such a node hands out an iterator over the
\* node's values, and the iterator's last step hands the n elements to the
\* visitor that asked for the field.
C5_Step ==
    /\ (AtValue /\ SlotFree /\ ValueType.k = "seq")
          => /\ calls' = Append(calls, NewCall("seq", ValueType.sub[1], Last(depth).path, 0))
             /\ depth' = depth
    /\ (pc = "run" /\ calls # <<>> /\ Last(calls).k = "seq"
           /\ AllOfType(NodeAt(Last(calls).parent), Last(calls).ty)
           /\ Last(calls).pos > Len(NodeAt(Last(calls).parent).values))
          => /\ pc' = "run"
             /\ Len(calls') = Len(calls) - 1
             /\ Last(calls').slots[Last(Front(calls)).field] =
                   <<WrapSome(VSeq(ElementsOf(NodeAt(Last(calls).parent), Last(calls).ty,
                                              Len(NodeAt(Last(calls).parent).values))),
                              Last(calls).wrap)>>

\* C5: a node with n >= 0 values of the element type, decoded into a
\* sequence-typed field, succeeds and yields exactly n elements, the i-th
\* being the decode of the i-th value.
C5_SequencePreservesValues == []C5_Progress /\ []C5_Final /\ [][C5_Step]_vars

\* A two-element sequence has been returned in the order of the values.
C5_Witness ==
    /\ Finished(1)
    /\ results[1].ok
    /\ shape.k = "struct"
    /\ shape.fields[1].ty = TVec(TBool)
    /\ results[1].val.xs[1] = VSeq(<<VBool(TRUE), VBool(FALSE)>>)

---------------------------------------------------------------------------
(* C6: optional fields without a node.                                     *)

NamedByNode(f) ==
    \E i \in 1..Len(input) :
        Resolvable(input[i]) /\ Resolved(input[i]) = shape.fields[f].name

AllOptional == \A f \in 1..Len(shape.fields) : shape.fields[f].ty.k = "option"

\* The input and the target of test_serde_options.
OptionsInput == <<Leaf(S_a, <<CvBoolean(TRUE)>>)>>
OptionsShape ==
    TStruct(<<Field(S_a, TOption(TBool)), Field(S_b, TOption(TString))>>, FALSE)

\* The returned struct has every optional field that no node resolves to
\* absent; the empty slice yields a struct of absent fields; the example of
\* test_serde_options yields its present field and its absent one.
C6_Final ==
    (Finished(1) /\ shape.k = "struct") =>
        /\ results[1].ok =>
              \A f \in 1..Len(shape.fields) :
                  (shape.fields[f].ty.k = "option" /\ ~NamedByNode(f))
                  => results[1].val.xs[f] = VNone
        /\ (input = <<>> /\ AllOptional) =>
              results[1] = Ok(VStruct([f \in 1..Len(shape.fields) |-> VNone]))
        /\ (input = OptionsInput /\ shape = OptionsShape) =>
              results[1] = Ok(VStruct(<<VSome(VBool(TRUE)), VNone>>))

\* The field iterator on top of the call chain has no node left.
AtEnd ==
    /\ pc = "run"
    /\ calls # <<>>
    /\ Last(calls).k = "map"
    /\ Last(calls).field = 0
    /\ Last(calls).pos > Len(ItemsOf(Last(calls).parent))

\* The step hands v to whoever asked for the struct.
Delivers(v) ==
    IF Len(calls) = 1
    THEN results' = Append(results, Ok(v)) /\ pc' = "idle"
    ELSE /\ pc' = "run"
         /\ Len(calls') = Len(calls) - 1
         /\ Last(calls').slots[Last(Front(calls)).field] = <<v>>

\* At the end of a field list, at any depth, the fields no node resolved to
\* raise an error only if one of them is not optional; otherwise the struct
\* is handed on with those fields absent and the others as decoded.
C6_Step ==
    AtEnd =>
        LET it == Last(calls)
            unset == { f \in 1..Len(it.ty.fields) : it.slots[f] = <<>> }
        IN  IF \A f \in unset : it.ty.fields[f].ty.k = "option"
            THEN Delivers(WrapSome(
                    VStruct([f \in 1..Len(it.ty.fields) |->
                                IF f \in unset THEN VNone ELSE it.slots[f][1]]),
                    it.wrap))
            ELSE pc' = "unwind" /\ pending'.kind = "SerdeError:missing_field"

\* C6: an optional field that no node of the field list resolves to ends
\* absent and causes no error; the empty slice decoded into a struct of
\* optional fields succeeds with every field absent; present siblings are
\* unaffected.
C6_MissingOptionIsAbsent == []C6_Final /\ [][C6_Step]_vars

\* The empty slice has been decoded into a struct of two optional fields.
C6_Witness ==
    /\ Finished(1)
    /\ input = <<>>
    /\ shape.k = "struct"
    /\ AllOptional
    /\ Len(shape.fields) = 2
    /\ results[1].ok
    /\ results[1].val.xs = <<VNone, VNone>>

---------------------------------------------------------------------------
(* C7: decode-as-char.                                                     *)

\* C7 as claimed: decode-as-char succeeds with the character for every
\* string that is exactly one character long, fails with ExpectChar
\* carrying the string for every string that is not, and fails with
\* ExpectString for a scalar that is no string.
C7_CharOfOneCharacter ==
    [][(AtValue /\ SlotFree /\ ValueType.k = "char" /\ Len(TopNode.values) = 1)
        => IF TopNode.values[1].tag # "String" THEN KeyFails("ExpectString")
           ELSE IF CharCount(TopNode.values[1].s) = 1
                THEN /\ pc' = "run"
                     /\ Last(calls').slots[Last(calls).field] =
                           <<VChar(TopNode.values[1].s[1])>>
                ELSE /\ pc' = "unwind"
                     /\ pending' = ErrArg("ExpectChar", TopNode.values[1].s)]_vars

---------------------------------------------------------------------------
(* C8: determinism.                                                        *)

\* C8: every call of from_collectd on the same tree and target returns the
\* same outcome, the same value or the same error, whatever the calls
\* before it left behind.
C8_Deterministic ==
    \A i, j \in 1..Len(results) : results[i] = results[j]

\* Two calls have returned: the first failed inside a nested struct and
\* left frames on its engine's stack.
C8_Witness ==
    /\ Len(results) >= 2
    /\ pc = "idle"
    /\ ~results[1].ok
    /\ results[2] = results[1]
    /\ Len(depth) >= 2

---------------------------------------------------------------------------
(* C9: errors abort the decode.                                            *)

C9_Step ==
    /\ pc = "unwind" =>
          /\ depth' = depth
          /\ root' = root
          /\ IF calls = <<>>
             THEN /\ results' = Append(results, Fail(pending))
                  /\ pc' = "idle"
             ELSE /\ calls' = Front(calls)
                  /\ pending' = pending
                  /\ results' = results
                  /\ pc' = "unwind"
    /\ (AtValue /\ (Last(calls).field > 0 => SlotFree)
           /\ Deserialize(ValueType, depth, root).kind = "err")
          => /\ pc' = "unwind"
             /\ pending' = Deserialize(ValueType, depth, root).err
             /\ depth' = depth
             /\ calls' = calls
             /\ results' = results
    /\ (AtKey /\ ~Resolvable(KeyNode))
          => /\ pc' = "unwind"
             /\ pending' = Err("ExpectString")
             /\ Len(calls') = Len(calls)
             /\ results' = results
    /\ (AtElement /\ pc' = "unwind")
          => /\ pending' =
                   Deserialize(Last(calls).ty, depth', root).err
             /\ Len(calls') = Len(calls)
             /\ Last(calls').elems = Last(calls).elems
             /\ results' = results

\* An outcome that is an error carries no value.
C9_NoPartialResult ==
    \A i \in 1..Len(results) : ~results[i].ok => results[i].val = VUnit

\* C9: once an engine operation or an iterator step has returned an error,
\* no node or value is visited, no frame is pushed, replaced or popped, no
\* partial result is returned, and the caller receives that first error.
C9_ErrorAborts == []C9_NoPartialResult /\ [][C9_Step]_vars

\* An error is on its way up from a nested struct while a sibling of the
\* node it came from has not been visited.
C9_Witness ==
    /\ pc = "unwind"
    /\ Len(calls) = 1
    /\ Len(depth) >= 2
    /\ calls[1].pos <= Len(input)

---------------------------------------------------------------------------
(* C11: the fully dynamic request and the shapes forwarded to it.          *)

NotSupported == Err("DataTypeNotSupported")

\* On a fresh engine and on the engine as a failed request left it, every
\* dynamic request answers DataTypeNotSupported and hands back the root
\* flag it found.
C11_Answer ==
    (results = <<>> /\ pc # "run") =>
        \A t \in DynamicTypes : Deserialize(t, depth, root) = RErr(NotSupported, root)

C11_Step ==
    /\ (AtValue /\ SlotFree /\ ValueType \in DynamicTypes)
          => /\ pc' = "unwind"
             /\ pending' = NotSupported
             /\ depth' = depth
             /\ root' = root
             /\ calls' = calls
             /\ results' = results
    /\ (AtElement /\ Last(calls).ty \in DynamicTypes)
          => /\ pc' = "unwind"
             /\ pending' = NotSupported
             /\ Last(depth') = DeSeq(Last(calls).parent, Last(calls).pos)
             /\ Len(depth') = Len(depth) + (IF Last(calls).first THEN 1 ELSE 0)
             /\ root' = root
             /\ results' = results
    /\ (pc = "idle" /\ shape \in DynamicTypes)
          => /\ pc' = "unwind"
             /\ pending' = NotSupported
             /\ depth' = <<>>
             /\ root' = TRUE
             /\ calls' = <<>>
             /\ results' = results

\* C11: decode-unknown and every shape forwarded to it (bytes, byte buffer,
\* unit, unit struct, newtype struct, tuple, tuple struct, map, enum) fail
\* with DataTypeNotSupported on a Struct frame, on a Sequence frame and on
\* an empty stack, and change neither the stack nor the root flag.
C11_DynamicNotSupported == []C11_Answer /\ [][C11_Step]_vars

\* A forwarded shape requested as a sequence element has failed on the
\* Sequence frame of the first value.
C11_Witness ==
    /\ pc = "unwind"
    /\ pending = NotSupported
    /\ calls # <<>>
    /\ Last(calls).k = "seq"
    /\ Last(calls).ty \in DynamicTypes
    /\ depth # <<>>
    /\ Last(depth).k = "Seq"

---------------------------------------------------------------------------
(* C12: each has_* answers for its own bit.                                *)

\* Flag f is a member of the capability set c.
Member(f, c) == (c \div f) % 2 = 1

OwnBits(c) ==
    /\ has_read(c) <=> Member(READ, c)
    /\ has_config(c) <=> Member(CONFIG, c)
    /\ has_init(c) <=> Member(INIT, c)
    /\ has_log(c) <=> Member(LOG, c)
    /\ has_write(c) <=> Member(WRITE, c)
    /\ has_flush(c) <=> Member(FLUSH, c)

C12_Answers ==
    /\ OwnBits(capabilities)
    /\ OwnBits(PluginCapabilities_default)
    /\ \A f \in Flags : ~Member(f, PluginCapabilities_default)
    /\ should.asked =>
          \E c \in 0..capabilities :
              /\ OwnBits(c)
              /\ should = Should(TRUE, Member(READ, c), Member(CONFIG, c),
                                 Member(INIT, c), Member(LOG, c), Member(WRITE, c),
                                 Member(FLUSH, c))

\* Advertising one more flag turns that flag's answer to true and leaves
\* the other five answers as they were; module_register's answers are
\* those of the set at that moment.
C12_Step ==
    /\ capabilities' # capabilities =>
          \E f \in Flags :
              /\ ~Member(f, capabilities)
              /\ \A g \in Flags :
                    Member(g, capabilities') <=> (g = f \/ Member(g, capabilities))
              /\ OwnBits(capabilities')
    /\ should' # should =>
          should' = Should(TRUE, Member(READ, capabilities), Member(CONFIG, capabilities),
                           Member(INIT, capabilities), Member(LOG, capabilities),
                           Member(WRITE, capabilities), Member(FLUSH, capabilities))

\* C12: for every capability set each of has_read, has_config, has_init,
\* has_log, has_write and has_flush is true if and only if its own bit is
\* in the set, whatever the other bits are; the default set answers false
\* to all six.
C12_OwnBit == []C12_Answers /\ [][C12_Step]_vars

\* READ alone has been advertised and module_register has asked: has_read
\* is true and has_config false.
C12_Witness ==
    /\ capabilities = READ
    /\ should.asked
    /\ should.read
    /\ ~should.config

---------------------------------------------------------------------------
(* C13: the tag errors.                                                    *)

IsTagged(t) == t.k \in {"bool", "f64", "i8", "string"}

\* The tag a request for t wants and the error it gives for another tag.
WantTag(t) ==
    CASE t.k = "bool" -> "Boolean"
      [] t.k \in {"f64", "i8"} -> "Number"
      [] OTHER -> "String"

TagError(t) ==
    CASE t.k = "bool" -> Err("ExpectBoolean")
      [] t.k \in {"f64", "i8"} -> Err("ExpectNumber")
      [] OTHER -> Err("ExpectString")

TagErrors == {Err("ExpectBoolean"), Err("ExpectNumber"), Err("ExpectString")}

C13_Step ==
    /\ (AtValue /\ SlotFree /\ IsTagged(ValueType))
          => /\ (pc' = "unwind" /\ pending' = TagError(ValueType))
                   <=> /\ Len(TopNode.values) = 1
                       /\ TopNode.values[1].tag # WantTag(ValueType)
             /\ Len(TopNode.values) # 1
                   => /\ pc' = "unwind"
                      /\ pending' = Err("ExpectSingleValue")
             /\ pending' \in TagErrors => pending' = TagError(ValueType)
    /\ (AtElement /\ IsTagged(Last(calls).ty))
          => /\ (pc' = "unwind" /\ pending' = TagError(Last(calls).ty))
                   <=> ElementValue.tag # WantTag(Last(calls).ty)
             /\ pending' \in TagErrors => pending' = TagError(Last(calls).ty)
    /\ (pc = "idle" /\ IsTagged(shape))
          => pending' \notin TagErrors

\* C13: a boolean, number or string request fails with ExpectBoolean,
\* ExpectNumber or ExpectString exactly when single-value resolution
\* succeeds and the scalar has another tag; resolution comes first, so a
\* Struct frame with no value or several reports ExpectSingleValue, never
\* a tag error.
C13_TagErrors == [][C13_Step]_vars

\* A boolean was requested from a node whose single value is no boolean.
C13_Witness ==
    /\ pc = "unwind"
    /\ pending = Err("ExpectBoolean")
    /\ calls # <<>>
    /\ Last(calls).k = "map"
    /\ Last(calls).field > 0
    /\ ValueType = TBool
    /\ Len(TopNode.values) = 1
    /\ TopNode.values[1].tag # "Boolean"

---------------------------------------------------------------------------
(* C14: requests that need a node, made on a Sequence frame.               *)

NeedsNode(t) == t.k \in {"seq", "struct", "identifier"}

\* On a Sequence frame the three requests answer ExpectStruct.
C14_Answer ==
    (depth # <<>> /\ Last(depth).k = "Seq") =>
        /\ deserialize_seq(TVec(TBool), depth, root) = RErr(Err("ExpectStruct"), root)
        /\ ~root => deserialize_struct(TStruct(<<Field(S_a, TBool)>>, FALSE), depth, root)
                       = RErr(Err("ExpectStruct"), root)
        /\ deserialize_identifier(depth, root) = RErr(Err("ExpectStruct"), root)

\* No element of a sequence of structs, sequences or identifiers is ever
\* decoded.
C14_NoElement ==
    \A i \in 1..Len(calls) :
        (calls[i].k = "seq" /\ NeedsNode(calls[i].ty)) => calls[i].elems = <<>>

\* The element step leaves the stack as the iterator made it: the request
\* itself pushes, replaces and pops nothing.
C14_Step ==
    (AtElement /\ NeedsNode(Last(calls).ty))
       => /\ ~root
          /\ pc' = "unwind"
          /\ pending' = Err("ExpectStruct")
          /\ depth' = IF Last(calls).first
                      THEN Append(depth, DeSeq(Last(calls).parent, Last(calls).pos))
                      ELSE [depth EXCEPT ![Len(depth)] =
                               DeSeq(Last(calls).parent, Last(calls).pos)]
          /\ root' = root
          /\ Len(calls') = Len(calls)
          /\ results' = results

---------------------------------------------------------------------------
(* C15: decode-as-optional forwards the frame to the inner type.           *)

InnerTypes ==
    { TBool, TString, TVec(TBool), TOption(TBool),
      TStruct(<<Field(S_a, TBool)>>, FALSE) }

\* out is the answer in, made present: a value inside Some, an iterator
\* whose result will be put inside Some, an error as it is.
MadePresent(in, out) ==
    /\ out.kind = in.kind
    /\ out.err = in.err
    /\ out.root = in.root
    /\ out.parent = in.parent
    /\ out.ty = in.ty
    /\ out.val = IF in.kind = "val" THEN VSome(in.val) ELSE in.val
    /\ out.wrap = IF in.kind \in {"map", "seq"} THEN in.wrap + 1 ELSE in.wrap

\* On a fresh engine and on the engine as a failed request left it.
C15_Answer ==
    (results = <<>> /\ pc # "run") =>
        \A t \in InnerTypes :
            MadePresent(Deserialize(t, depth, root), Deserialize(TOption(t), depth, root))

\* What a visitor holds for an optional field or element it asked the
\* engine for is never the absent state.
C15_NeverAbsent ==
    \A i \in 1..Len(calls) :
        /\ \A f \in 1..Len(calls[i].ty.fields) :
              (calls[i].ty.fields[f].ty.k = "option" /\ calls[i].slots[f] # <<>>)
                 => calls[i].slots[f][1].t = "some"
        /\ (calls[i].k = "seq" /\ calls[i].ty.k = "option")
              => \A e \in 1..Len(calls[i].elems) : calls[i].elems[e].t = "some"

C15_Step ==
    (AtValue /\ SlotFree /\ ValueType.k = "option")
       => LET inner == ValueType.sub[1]
              f == Last(calls).field
          IN  /\ IsScalarType(inner) =>
                    /\ Len(TopNode.values) # 1
                          => pc' = "unwind" /\ pending' = Err("ExpectSingleValue")
                    /\ (Len(TopNode.values) = 1 /\ pc' = "run")
                          => /\ Last(calls').slots[f][1].t = "some"
                             /\ ReadFrom(inner, TopNode.values[1],
                                         Last(calls').slots[f][1].xs[1])
              /\ LET in == Deserialize(inner, depth, root)
                 IN  /\ in.kind = "err"
                           => /\ pc' = "unwind"
                              /\ pending' = in.err
                              /\ depth' = depth
                     /\ in.kind = "val"
                           => /\ pc' = "run"
                              /\ Last(calls').slots[f] = <<VSome(in.val)>>

\* C15: decode-as-optional never yields the absent state and checks
\* nothing itself: on every frame its outcome is the inner type's outcome
\* on that frame, present on success and the same error on failure; an
\* optional scalar whose node has no value or several fails with
\* ExpectSingleValue.
C15_OptionForwards ==
    []C15_Answer /\ []C15_NeverAbsent /\ [][C15_Step]_vars

\* An optional scalar field whose node has no value has failed.
C15_Witness ==
    /\ pc = "unwind"
    /\ pending = Err("ExpectSingleValue")
    /\ calls # <<>>
    /\ Last(calls).k = "map"
    /\ Last(calls).field > 0
    /\ ValueType.k = "option"
    /\ IsScalarType(ValueType.sub[1])
    /\ TopNode.values = <<>>

---------------------------------------------------------------------------
(* C16: the first request on a fresh engine.                               *)

NeedsFrame(t) == IsScalarType(t) \/ t.k = "seq"

RECURSIVE StructShaped(_)
StructShaped(t) == t.k = "struct" \/ (t.k = "option" /\ StructShaped(t.sub[1]))

\* from_collectd is about to be called.
AtCall == pc = "idle" /\ Len(results) < MaxRuns

C16_Step ==
    /\ (AtCall /\ NeedsFrame(shape))
          => /\ pc' = "unwind"
             /\ pending' = Err("NoMoreValuesLeft")
             /\ depth' = <<>>
             /\ root' = TRUE
             /\ calls' = <<>>
             /\ results' = results
    /\ AtCall
          => /\ calls' # <<>> <=> StructShaped(shape)
             /\ calls' # <<>>
                   => /\ Len(calls') = 1
                      /\ calls'[1].k = "map"
                      /\ calls'[1].parent = <<>>
                      /\ calls'[1].pos = 1
                      /\ depth' = <<>>
                      /\ ~root'

\* What the caller gets for such a target.
C16_Outcome ==
    NeedsFrame(shape) =>
        \A i \in 1..Len(results) : results[i] = Fail(Err("NoMoreValuesLeft"))

\* C16: on a fresh engine a boolean, number, string, char or sequence
\* requested as the top-level target fails with NoMoreValuesLeft whatever
\* the input tree is, with the stack still empty and the root flag still
\* set; only a struct-shaped first request walks the top-level slice.
C16_TopLevelNeedsStruct == []C16_Outcome /\ [][C16_Step]_vars

\* A sequence was the top-level target of a tree that is not empty.
C16_Witness ==
    /\ shape = TVec(TBool)
    /\ input # <<>>
    /\ Len(results) >= 1
    /\ results[1] = Fail(Err("NoMoreValuesLeft"))
    /\ depth = <<>>
    /\ root

---------------------------------------------------------------------------
(* C17: decode-as-identifier on an empty stack.                            *)

\* C17 as claimed: decode-as-identifier requested while the stack is empty
\* returns the error NoMoreValuesLeft; it neither crashes nor succeeds.
\* (A field identifier as the target of from_collectd makes that request
\* on the fresh engine.)
C17_IdentifierOnEmptyStack ==
    shape = TIdentifier =>
        \A i \in 1..Len(results) : results[i] = Fail(Err("NoMoreValuesLeft"))

---------------------------------------------------------------------------
(* C18: the root flag.                                                     *)

AStruct == TStruct(<<Field(S_a, TBool)>>, FALSE)

\* While the flag is set the stack is empty, and a struct request made
\* with the flag set walks the top-level slice and clears the flag,
\* whatever the stack holds.
C18_State ==
    /\ root => depth = <<>>
    /\ deserialize_struct(AStruct, depth, TRUE) = RMap(<<>>, AStruct, FALSE)

C18_Step ==
    \* a fresh engine starts with the flag set; the first request clears
    \* it if and only if it is struct-shaped
    /\ AtCall => root' = ~StructShaped(shape)
    \* nothing else changes the flag: it is never set again
    /\ pc # "idle" => root' = root
    \* a later struct request walks the children of the node on top
    /\ (AtValue /\ SlotFree /\ StructShaped(ValueType))
          => /\ ~root
             /\ Last(depth).k = "Struct"
             /\ pc' = "run"
             /\ Len(calls') = Len(calls) + 1
             /\ Last(calls').k = "map"
             /\ Last(calls').parent = Last(depth).path
             /\ Last(calls').pos = 1
             /\ ItemsOf(Last(calls').parent) = TopNode.children
             /\ depth' = depth

\* C18: the root flag starts set, only a struct-shaped request clears it
\* and nothing sets it again; the first struct request walks the
\* top-level slice whatever the stack is, every later one the children of
\* the node in the top Struct frame; while the flag is set the stack is
\* empty.
C18_RootOneShot == []C18_State /\ [][C18_Step]_vars

\* A second struct request is walking the children of a top-level node.
C18_Witness ==
    /\ pc = "run"
    /\ Len(calls) = 2
    /\ calls[1].parent = <<>>
    /\ calls[2].k = "map"
    /\ Len(calls[2].parent) = 1
    /\ calls[2].pos > 1
    /\ ~root

---------------------------------------------------------------------------
(* C19: push once, replace thereafter, pop at the end.                     *)

\* The frame of the entry iterator it made current last.
FrameOf(it) ==
    IF it.k = "map" THEN DeStruct(Append(it.parent, it.pos - 1))
    ELSE DeSeq(it.parent, it.pos - 1)

\* The frame of the entry iterator it makes current next.
NextFrameOf(it) ==
    IF it.k = "map" THEN DeStruct(Append(it.parent, it.pos))
    ELSE DeSeq(it.parent, it.pos)

\* The element iterator on top of the call chain has no value left.
AtSeqEnd ==
    /\ pc = "run"
    /\ calls # <<>>
    /\ Last(calls).k = "seq"
    /\ Last(calls).pos > Len(NodeAt(Last(calls).parent).values)

\* While a decode runs, the i-th iterator of the call chain owns the i-th
\* frame: it was created on a stack of i - 1 frames, has one frame of its
\* own from its first step on (the entry being decoded), and none before;
\* only the innermost iterator can be before its first step.  When the
\* outermost iterator has reported exhaustion the stack is empty again.
C19_Frames ==
    /\ pc = "run" =>
          /\ \A i \in 1..(Len(calls) - 1) : ~calls[i].first
          /\ Len(depth) = Len(calls) - (IF Last(calls).first THEN 1 ELSE 0)
          /\ \A i \in 1..Len(depth) : depth[i] = FrameOf(calls[i])
          /\ \A i \in 1..Len(calls) : calls[i].first <=> calls[i].pos = 1
    /\ (pc = "idle" /\ results # <<>> /\ Last(results).ok) => depth = <<>>

C19_Step ==
    \* a step onto an entry: one push on the first step, a replacement of
    \* the top frame on every later one
    /\ (AtKey \/ AtElement)
          => /\ depth' = IF Last(calls).first
                         THEN Append(depth, NextFrameOf(Last(calls)))
                         ELSE [depth EXCEPT ![Len(depth)] = NextFrameOf(Last(calls))]
             /\ pc' = "run" => ~calls'[Len(calls)].first
    \* exhaustion: one pop, unless the slice was empty
    /\ (AtEnd \/ AtSeqEnd)
          => /\ depth' = IF Last(calls).first THEN depth ELSE Front(depth)
             /\ Last(calls).first <=>
                   (IF Last(calls).k = "map"
                    THEN ItemsOf(Last(calls).parent) = <<>>
                    ELSE NodeAt(Last(calls).parent).values = <<>>)
             /\ Len(depth') = Len(calls) - 1
    \* the value of an entry is decoded on the frame of the entry
    /\ AtValue => depth' = depth

\* C19: the field iterator and the element iterator push one frame on
\* their first step, replace the top frame on every later step and pop
\* one frame when they report exhaustion; over an empty slice they push
\* and pop nothing; the stack at exhaustion is as deep as when the
\* iterator was created and one frame deeper while an entry is decoded.
C19_PushReplacePop == []C19_Frames /\ [][C19_Step]_vars

\* A field iterator has replaced its frame once and then, inside the
\* second node, an element iterator has replaced its own.
C19_Witness ==
    /\ pc = "run"
    /\ Len(calls) = 2
    /\ calls[1].k = "map"
    /\ calls[1].pos = 3
    /\ calls[2].k = "seq"
    /\ calls[2].pos = 3
    /\ Len(depth) = 2

---------------------------------------------------------------------------
(* C20: the stack and the nesting depth of the node being visited.         *)

\* The nesting depth of the node a frame refers to (for a Sequence frame:
\* the node whose value it holds); top-level nodes have depth 1.
Nesting(frame) == Len(frame.path)

\* C20 as claimed: the stack never holds more frames than the nesting
\* depth of the node being visited, also while the values of a node are
\* decoded as sequence elements.
C20_StackWithinNesting ==
    depth # <<>> => Len(depth) <= Nesting(Last(depth))

\* C20 amended: the stack never holds more frames than the nesting depth
\* of the node being visited, plus one while a value of that node is
\* decoded as a sequence element: the Sequence frame of the value lies on
\* top of the Struct frame of its node, and nowhere else.
C20_StackWithinNestingPlusValue ==
    /\ depth # <<>> =>
          Len(depth) <= Nesting(Last(depth)) + (IF Last(depth).k = "Seq" THEN 1 ELSE 0)
    /\ \A i \in 1..Len(depth) :
          IF depth[i].k = "Struct"
          THEN Nesting(depth[i]) = i
          ELSE /\ i = Len(depth)
               /\ i > 1
               /\ depth[i - 1] = DeStruct(depth[i].path)

\* The second value of a nested node is being decoded as an element.
C20_Witness ==
    /\ pc = "run"
    /\ Len(depth) = 3
    /\ Last(depth).k = "Seq"
    /\ Last(depth).idx = 2
    /\ Nesting(Last(depth)) = 2

---------------------------------------------------------------------------
(* C21: what writes the stack, the root flag and the input.                *)

C21_Step ==
    \* the input tree and the target are read only
    /\ input' = input
    /\ shape' = shape
    \* a value request of any kind (scalar, optional, ignored, unknown,
    \* struct, sequence) leaves the stack and the flag as they are
    /\ AtValue => (depth' = depth /\ root' = root)
    \* an iterator step writes its frame and nothing else; the identifier
    \* or element request that follows writes nothing
    /\ (AtKey \/ AtElement)
          => /\ root' = root
             /\ Front(depth') = (IF Last(calls).first THEN depth ELSE Front(depth))
    \* an error on its way up writes nothing
    /\ pc = "unwind" => (depth' = depth /\ root' = root)
    \* only the iterators write the stack of a running decode
    /\ (depth' # depth /\ pc # "idle") => (AtKey \/ AtElement \/ AtEnd \/ AtSeqEnd)
    \* only a struct request clears the flag, and only a new engine sets it
    /\ (root /\ ~root') => (AtCall /\ StructShaped(shape))
    /\ (~root /\ root') => AtCall
    /\ (AtCall /\ ~StructShaped(shape)) => (root' /\ depth' = <<>>)

\* C21: the scalar requests, the optional's forwarding, decode-as-
\* identifier, decode-unknown-ignored and decode-unknown change neither
\* the stack nor the root flag, on success and on failure; only the two
\* iterators push, replace or pop frames, only decode-as-struct clears the
\* root flag, and nothing modifies the input tree.
C21_FrameEffects == [][C21_Step]_vars

\* An unknown node has been skipped and an optional scalar decoded, each on
\* the frame its iterator step left.
C21_Witness ==
    /\ pc = "run"
    /\ Len(calls) = 1
    /\ Len(depth) = 1
    /\ calls[1].pos = 3
    /\ calls[1].field = 0
    /\ Len(input) >= 2
    /\ FieldIndex(shape, input[1].key) = -1
    /\ Len(calls[1].slots) = 2
    /\ calls[1].slots[2] # <<>>
    /\ calls[1].slots[2][1].t = "some"

---------------------------------------------------------------------------
(* C22: a Number decoded into an integer.                                  *)

\* t reduced to 8 bits and read as a signed integer.
WrapI8(t) == ((t + 128) % 256) - 128

\* C22 as claimed: a Number decoded into an integer never fails on range
\* or fractional part, and a value out of range wraps by two's-complement
\* truncation: 300.0 into an 8-bit signed integer is 44, no error and no
\* clamped value.
C22_IntegerWraps ==
    [][(AtValue /\ SlotFree /\ ValueType = TI8
          /\ Len(TopNode.values) = 1 /\ TopNode.values[1].tag = "Number")
        => /\ pc' = "run"
           /\ Last(calls').slots[Last(calls).field] =
                 <<VInt(WrapI8(Trunc(TopNode.values[1].n)))>>]_vars

---------------------------------------------------------------------------
(* C23: module_register registers the advertised callbacks and no other.   *)

\* The capability bit that stands for a callback.
BitOf(cb) ==
    CASE cb = "read" -> READ
      [] cb = "write" -> WRITE
      [] cb = "init" -> INIT
      [] cb = "config" -> CONFIG
      [] cb = "log" -> LOG
      [] cb = "flush" -> FLUSH

Advertised(c) == {cb \in Callbacks : Member(BitOf(cb), c)}

\* The callback whose run invokes a method of the plugin.
CallbackOf(method) ==
    CASE method = "read_values" -> "read"
      [] method = "write_values" -> "write"
      [] method = "initialize" -> "init"
      [] method = "config" -> "config"
      [] method = "log" -> "log"
      [] method = "flush" -> "flush"
      [] OTHER -> "none"

Invoked(tr) ==
    {CallbackOf(tr[i].what) : i \in {j \in 1..Len(tr) : tr[j].e = "call"}}
        \ {"none"}

C23_Step ==
    /\ (~should.asked /\ should'.asked) =>
          registered' = Advertised(capabilities)
    /\ should.asked => registered' \subseteq registered
    /\ last'.cb \in Callbacks => last'.cb \in Advertised(capabilities)

C23_Invoked ==
    /\ registered \subseteq Advertised(capabilities)
    /\ Invoked(last.trace) \subseteq Advertised(capabilities)
    /\ capabilities = PluginCapabilities_default =>
          registered = {} /\ last = NoCallback

\* C23: module_register registers read, write, init, config, log and flush
\* each if and only if its capability bit is set; the host then holds and
\* calls only advertised callbacks, only methods behind advertised callbacks
\* run, and a plugin with the default (empty) capabilities has no callback
\* registered and none of its methods invoked.
C23_RegistersAdvertised == []C23_Invoked /\ [][C23_Step]_vars

\* init and flush advertised, both registered and no other, flush called.
C23_Witness ==
    /\ should.asked
    /\ capabilities = BitOr(INIT, FLUSH)
    /\ registered = {"init", "flush"}
    /\ last.cb = "flush"
    /\ Invoked(last.trace) = {"flush"}

---------------------------------------------------------------------------
(* C24: a failing log method in the log callback.                          *)

LogError == Event("call", "log", FALSE)
Unregistered == Event("unregister", "log", TRUE)
ReportedToOthers == Event("report", "logging error", FALSE)

\* The positions of a host call's trace at which plugin.log returned Err.
Failures(tr) == {i \in 1..Len(tr) : tr[i] = LogError}

C24_Trace(tr) ==
    /\ \A i \in Failures(tr) :
          /\ \E j \in (i + 1)..Len(tr) :
                /\ tr[j] = Unregistered
                /\ \E k \in (j + 1)..Len(tr) : tr[k] = ReportedToOthers
          /\ \A m \in (i + 1)..Len(tr) :
                ~(tr[m].e = "call" /\ tr[m].what = "log")
    /\ \A m \in 1..Len(tr) :
          (tr[m].e = "report" /\ tr[m].what = "logging error") => ~tr[m].flag
    /\ Failures(tr) = {} => \A m \in 1..Len(tr) : tr[m].e # "unregister"

\* C24: when plugin.log returns an error in the log callback, the plugin's
\* logger is unregistered first and the error is reported afterwards, so
\* the report goes to the other loggers only and log is not invoked again
\* for it; when log succeeds or the message is not valid text, the callback
\* unregisters nothing.
C24_UnregisterThenReport ==
    last.cb \in Callbacks =>
        /\ C24_Trace(last.trace)
        /\ Failures(last.trace) # {} => "log" \notin registered
        /\ (last.cb = "log" /\ Failures(last.trace) = {}) =>
              last.trace \in {<<>>, <<Event("call", "log", TRUE)>>}

\* The log callback ran, log failed, and the report went out.
C24_Witness ==
    /\ last.cb = "log"
    /\ Failures(last.trace) = {1}
    /\ last.trace[Len(last.trace)] = ReportedToOthers
    /\ "log" \notin registered

---------------------------------------------------------------------------
(* C27: the lifetime of the boxed plugin instance.                         *)

Frees(tr) == {i \in 1..Len(tr) : tr[i].e = "free"}

\* C27 as claimed: the instance module_register creates is freed at most
\* once and never used after being freed, whatever the capabilities and
\* the callbacks that run: no read, write, log, init, flush or config
\* callback frees it, and with the host calling the free function once for
\* each registration that was given user data, the free function runs at
\* most once for the instance.
C27_FreedOnceNeverUsedAfter ==
    /\ frees <= 1
    /\ ~uaf
    /\ last.cb \in Callbacks => Frees(last.trace) = {}

---------------------------------------------------------------------------
(* C28: the key/value config callback of lib.rs.                           *)

\* The values of ConfigValues that are numbers, with the number each one
\* writes.
Numbers == {<<"1">>, <<"0", "1">>, <<"-", "2">>}
NumberOf(value) == IF value = <<"-", "2">> THEN -2 ELSE 1

StoredFor(key) ==
    IF key = Str_Short THEN SHORT_VALUE
    ELSE IF key = Str_Mid THEN MID_VALUE
    ELSE LONG_VALUE
StoredAfter(key) ==
    IF key = Str_Short THEN SHORT_VALUE'
    ELSE IF key = Str_Mid THEN MID_VALUE'
    ELSE LONG_VALUE'
Recognized == {Str_Short, Str_Mid, Str_Long}

\* The calls for key that returned 0.
Successes(key) ==
    {i \in 1..Len(configured) :
        configured[i].key = key /\ configured[i].ret = 0}
LastOf(S) == CHOOSE i \in S : \A j \in S : j <= i

C28_Step ==
    Len(configured') = Len(configured) + 1 =>
        LET call == configured'[Len(configured')]
        IN  IF call.key \in Recognized /\ call.value \in Numbers
            THEN /\ call.ret = 0
                 /\ StoredAfter(call.key) = Some(NumberOf(call.value))
                 /\ \A k \in Recognized \ {call.key} :
                       StoredAfter(k) = StoredFor(k)
            ELSE /\ call.ret = -1
                 /\ \A k \in Recognized : StoredAfter(k) = StoredFor(k)

C28_Stored ==
    \A k \in Recognized :
        IF Successes(k) = {} THEN StoredFor(k) = None
        ELSE StoredFor(k) =
                Some(NumberOf(configured[LastOf(Successes(k))].value))

\* C28: my_config with key Short, Mid or Long and a value that parses as a
\* number sets the stored value of that key only and returns 0; with any
\* other key, or a value that does not parse as a number, it returns -1
\* and leaves the three stored values as they were; so each stored value
\* is unset or the value of the last successful call for its key.
C28_ConfigCallback == []C28_Stored /\ [][C28_Step]_vars

\* Short set to -2, then a call for Short with a value that is no number.
C28_Witness ==
    /\ Len(configured) = 2
    /\ configured[1] = [key |-> Str_Short, value |-> <<"-", "2">>, ret |-> 0]
    /\ configured[2] =
          [key |-> Str_Short, value |-> <<"1", "x">>, ret |-> -1]
    /\ SHORT_VALUE = Some(-2)
    /\ MID_VALUE = None

---------------------------------------------------------------------------
(* C25: the stack is the path to the data being read.                      *)

\* path leads to a node of the tree below items.
RECURSIVE IsPath(_, _)
IsPath(items, path) ==
    /\ path # <<>>
    /\ path[1] \in 1..Len(items)
    /\ Len(path) > 1 => IsPath(items[path[1]].children, Tail(path))

ParentPath(path) == SubSeq(path, 1, Len(path) - 1)

C25_Frame(i) ==
    IF depth[i].k = "Struct"
    THEN /\ IsPath(input, depth[i].path)
         /\ IF i = 1 THEN Len(depth[i].path) = 1
            ELSE /\ depth[i - 1].k = "Struct"
                 /\ ParentPath(depth[i].path) = depth[i - 1].path
    ELSE /\ i = Len(depth)
         /\ i > 1
         /\ depth[i - 1].k = "Struct"
         /\ depth[i].path = depth[i - 1].path
         /\ depth[i].idx \in 1..Len(NodeAt(depth[i - 1].path).values)

\* C25: while a decode runs, the Struct frames of the stack are, bottom to
\* top, a top-level node and then each time a child of the node in the
\* frame below; a Sequence frame is only ever the top frame, and it refers
\* to one of the values of the node in the Struct frame directly beneath.
C25_StackIsPath ==
    pc = "run" => \A i \in 1..Len(depth) : C25_Frame(i)

\* A value of a child of a top-level node is being decoded as an element.
C25_Witness ==
    /\ pc = "run"
    /\ Len(depth) = 3
    /\ depth[1] = DeStruct(<<1>>)
    /\ depth[2].k = "Struct"
    /\ ParentPath(depth[2].path) = <<1>>
    /\ depth[3].k = "Seq"
    /\ depth[3].idx = 1

---------------------------------------------------------------------------
(* C26: no pop or replacement on an empty stack.                           *)

\* Targets built from struct, sequence, optional and scalar.
RECURSIVE Plain(_)
Plain(t) ==
    \/ IsScalarType(t)
    \/ t.k \in {"seq", "option"} /\ \A i \in 1..Len(t.sub) : Plain(t.sub[i])
    \/ t.k = "struct" /\ \A i \in 1..Len(t.fields) : Plain(t.fields[i].ty)

\* An iterator is about to step (next_key_seed or next_element_seed).
AtIterator ==
    /\ pc = "run"
    /\ calls # <<>>
    /\ Last(calls).k = "map" => Last(calls).field = 0

Panicked(res) == ~res.ok /\ res.err.kind = "panic"

C26_State ==
    Plain(shape) =>
        /\ (AtIterator /\ ~Last(calls).first) => depth # <<>>
        /\ \A i \in 1..Len(results) : ~Panicked(results[i])

C26_Step ==
    (Plain(shape) /\ Len(results') = Len(results) + 1
        /\ results'[Len(results')].ok) => depth' = <<>>

\* C26: for a target built from struct, sequence, optional and scalar, an
\* iterator that has pushed its frame always finds a frame on the stack
\* when it replaces or pops it, so no decode ends in a panic, and a
\* top-level decode that returns success leaves the stack empty.
C26_NoEmptyPop == []C26_State /\ [][C26_Step]_vars

\* A struct with a sequence field has been decoded: both iterators pushed,
\* replaced and popped, and the stack is empty again.
C26_Witness ==
    /\ pc = "idle"
    /\ Len(results) = 1
    /\ results[1].ok
    /\ depth = <<>>
    /\ shape.k = "struct"
    /\ Plain(shape)
    /\ \E f \in 1..Len(shape.fields) : shape.fields[f].ty.k = "seq"
    /\ Len(input) = 2
    /\ \E n \in 1..Len(input) : Len(input[n].values) = 2

=============================================================================
